---- MODULE Spec2Model ----
(***************************************************************************)
(* Profit calculation and aggregation of the freight bookkeeping           *)
(* dashboard (list view, shipment form, statistics view).                  *)
(*                                                                         *)
(* Number representation.  Fee costs and prices are integers (currency     *)
(* units).  exchangeRate is held in tenths (72 stands for 7.2, 70 for      *)
(* 7.0), and every profit figure is held in tenths of a yuan (15500        *)
(* stands for 1550.0), so that the products with the rate stay exact.      *)
(*                                                                         *)
(* A JavaScript object is a function from field names to values; a field   *)
(* that is undefined or null is absent from the DOMAIN.  A string that the *)
(* code tests for truthiness or formats is a sequence (the empty string is *)
(* << >>); an ISO date string "yyyy-MM-dd" is held as its three numeric    *)
(* fields << y, m, d >>.                                                   *)
(***************************************************************************)
EXTENDS Integers, Sequences, FiniteSets, TLC

VARIABLES
    shipments,        \* useShipmentStore: state.shipments
    selectedYear,     \* StatsView: selectedYear
    viewMode,         \* StatsView: viewMode
    editingShipment,  \* App: editingShipment (<< >> = undefined, else << record >>)
    formValues,       \* ShipmentForm: the values held by useForm
    listProfit,       \* ShipmentList: the profit cell rendered for each row
    estimatedProfit,  \* ShipmentForm: the estimated profit shown
    stats,            \* StatsView: the memoised aggregates shown
    searchQuery,      \* ShipmentList: searchQuery
    filterType,       \* ShipmentList: filterType
    clientFilter,     \* ShipmentList: clientFilter
    selectedIds,      \* ShipmentList: selectedIds
    filtered,         \* ShipmentList: filteredShipments, or the error thrown
    error,            \* useShipmentStore: state.error (<< >> = null)
    loading,          \* useShipmentStore: state.loading
    server,           \* supabase: the rows of the table shipments, newest first
    calls,            \* the calls of the store's async functions in flight
    lastCall,         \* the call that returned last (<< >> = none yet, else << call >>)
    nextId,           \* the number of ids generated so far, plus one
    notifications,    \* postgres_changes events not yet delivered to the channel
    writes,           \* the number of writes the user has started
    auth,             \* useAuthStore: session, user, loading (<< >> = null), and its calls
    exported          \* ShipmentList: the PDF saved last (<< >> = none, else << document >>)

filterVars == << searchQuery, filterType, clientFilter, selectedIds >>

storeVars == << error, loading, server, calls, lastCall, nextId, notifications,
               writes, auth >>

vars == << shipments, selectedYear, viewMode, editingShipment, formValues,
           listProfit, estimatedProfit, stats, filterVars, filtered, storeVars,
           exported >>

----------------------------------------------------------------------------
(* Bounds *)

MaxListRecords == 1
MaxStatsRecords == 3
MaxTopFree == 3
MaxFilterRecords == 2
MaxViewRecords == 1
MaxWrites == 1

\* the auth-state-change callbacks that are delivered
MaxAuthChanges == 2

----------------------------------------------------------------------------
(* JavaScript value helpers *)

\* record[key] || dflt, for a numeric field (undefined, null and 0 are falsy)
OrNum(record, key, dflt) ==
    IF key \in DOMAIN record /\ record[key] # 0 THEN record[key] ELSE dflt

\* record[key] || dflt, for a string field (undefined, null and "" are falsy)
OrStr(record, key, dflt) ==
    IF key \in DOMAIN record /\ record[key] # << >> THEN record[key] ELSE dflt

\* Boolean(record[key]) for a string field
Truthy(record, key) == key \in DOMAIN record /\ record[key] # << >>

\* the object without the field key
Without(record, key) == [k \in DOMAIN record \ {key} |-> record[k]]

\* { ...record, [key]: value }
With(record, key, value) ==
    [k \in DOMAIN record \cup {key} |-> IF k = key THEN value ELSE record[k]]

----------------------------------------------------------------------------
(* Fee schema *)

DEFAULT_EXCHANGE_RATE == 72

feeKeys ==
    << "thc", "printingFee", "sealFee", "docFee", "telexFee", "blFee",
       "diffPickupFee", "weighingFee", "vgmFee", "amendmentFee",
       "detentionFee", "demurrageFee", "handlingFee", "insuranceFee" >>

\* `${key}Cost`
CostKey(key) ==
    CASE key = "thc" -> "thcCost"
      [] key = "printingFee" -> "printingFeeCost"
      [] key = "sealFee" -> "sealFeeCost"
      [] key = "docFee" -> "docFeeCost"
      [] key = "telexFee" -> "telexFeeCost"
      [] key = "blFee" -> "blFeeCost"
      [] key = "diffPickupFee" -> "diffPickupFeeCost"
      [] key = "weighingFee" -> "weighingFeeCost"
      [] key = "vgmFee" -> "vgmFeeCost"
      [] key = "amendmentFee" -> "amendmentFeeCost"
      [] key = "detentionFee" -> "detentionFeeCost"
      [] key = "demurrageFee" -> "demurrageFeeCost"
      [] key = "handlingFee" -> "handlingFeeCost"
      [] key = "insuranceFee" -> "insuranceFeeCost"

\* `${key}Price`
PriceKey(key) ==
    CASE key = "thc" -> "thcPrice"
      [] key = "printingFee" -> "printingFeePrice"
      [] key = "sealFee" -> "sealFeePrice"
      [] key = "docFee" -> "docFeePrice"
      [] key = "telexFee" -> "telexFeePrice"
      [] key = "blFee" -> "blFeePrice"
      [] key = "diffPickupFee" -> "diffPickupFeePrice"
      [] key = "weighingFee" -> "weighingFeePrice"
      [] key = "vgmFee" -> "vgmFeePrice"
      [] key = "amendmentFee" -> "amendmentFeePrice"
      [] key = "detentionFee" -> "detentionFeePrice"
      [] key = "demurrageFee" -> "demurrageFeePrice"
      [] key = "handlingFee" -> "handlingFeePrice"
      [] key = "insuranceFee" -> "insuranceFeePrice"

----------------------------------------------------------------------------
(* ShipmentList: calculateTotalProfit *)

\* const rate = record.exchangeRate || 7.2   (mutant: no default)
listRate_NoDefault(record) == OrNum(record, "exchangeRate", 0)

\* mutant: ?? instead of ||, so that a rate of 0 stays 0
listRate_NullishOnly(record) ==
    IF "exchangeRate" \in DOMAIN record THEN record.exchangeRate
    ELSE DEFAULT_EXCHANGE_RATE

listRate(record) == OrNum(record, "exchangeRate", DEFAULT_EXCHANGE_RATE)

oceanProfit(record) ==
    (OrNum(record, "oceanFreightPrice", 0) - OrNum(record, "oceanFreightCost", 0))
        * listRate(record)

\* feeKeys.forEach(key => additionalProfit += price - cost), keys 1..n
RECURSIVE additionalProfit(_, _)
additionalProfit(record, n) ==
    IF n = 0 THEN 0
    ELSE additionalProfit(record, n - 1)
         + (OrNum(record, PriceKey(feeKeys[n]), 0)
            - OrNum(record, CostKey(feeKeys[n]), 0))

\* mutant: the loop stops one key early (insuranceFee is never added)
calculateTotalProfit_SkipLast(record) ==
    LET truckingProfit == OrNum(record, "truckingFeePrice", 0)
                          - OrNum(record, "truckingFeeCost", 0)
        customsProfit == OrNum(record, "customsFeePrice", 0)
                         - OrNum(record, "customsFeeCost", 0)
    IN  oceanProfit(record)
        + 10 * (truckingProfit + customsProfit
                + additionalProfit(record, Len(feeKeys) - 1))

calculateTotalProfit(record) ==
    LET truckingProfit == OrNum(record, "truckingFeePrice", 0)
                          - OrNum(record, "truckingFeeCost", 0)
        customsProfit == OrNum(record, "customsFeePrice", 0)
                         - OrNum(record, "customsFeeCost", 0)
    IN  oceanProfit(record)
        + 10 * (truckingProfit + customsProfit
                + additionalProfit(record, Len(feeKeys)))

----------------------------------------------------------------------------
(* ShipmentForm: defaultValues, reset and estimatedProfit *)

defaultValues ==
    [ bookingNo |-> << >>, businessNo |-> << >>, shipper |-> << >>,
      client |-> << >>, fleet |-> << >>, loadingDate |-> << >>,
      sailingDate |-> << >>, arrivalDate |-> << >>, pol |-> << >>,
      pod |-> << >>, vesselName |-> << >>, containerType |-> << >>,
      containerNo |-> << >>,
      oceanFreightCost |-> 0, oceanFreightPrice |-> 0,
      truckingFeeCost |-> 0, truckingFeePrice |-> 0,
      customsFeeCost |-> 0, customsFeePrice |-> 0,
      thcCost |-> 0, thcPrice |-> 0,
      printingFeeCost |-> 0, printingFeePrice |-> 0,
      sealFeeCost |-> 0, sealFeePrice |-> 0,
      docFeeCost |-> 0, docFeePrice |-> 0,
      telexFeeCost |-> 0, telexFeePrice |-> 0,
      blFeeCost |-> 0, blFeePrice |-> 0,
      diffPickupFeeCost |-> 0, diffPickupFeePrice |-> 0,
      weighingFeeCost |-> 0, weighingFeePrice |-> 0,
      vgmFeeCost |-> 0, vgmFeePrice |-> 0,
      amendmentFeeCost |-> 0, amendmentFeePrice |-> 0,
      detentionFeeCost |-> 0, detentionFeePrice |-> 0,
      demurrageFeeCost |-> 0, demurrageFeePrice |-> 0,
      handlingFeeCost |-> 0, handlingFeePrice |-> 0,
      insuranceFeeCost |-> 0, insuranceFeePrice |-> 0,
      exchangeRate |-> DEFAULT_EXCHANGE_RATE,
      isSpecialDeclaration |-> FALSE ]

resetStrings ==
    { "client", "fleet", "loadingDate", "sailingDate", "arrivalDate",
      "vesselName" }

resetNumbers ==
    { "vgmFeeCost", "vgmFeePrice", "amendmentFeeCost", "amendmentFeePrice",
      "detentionFeeCost", "detentionFeePrice", "demurrageFeeCost",
      "demurrageFeePrice", "handlingFeeCost", "handlingFeePrice",
      "insuranceFeeCost", "insuranceFeePrice" }

\* form.reset({ ...initialData, client: initialData.client || "", ... }),
\* or form.reset({ ...defaults }) when there is no initialData
resetValues(editing) ==
    IF editing = << >> THEN defaultValues
    ELSE LET initialData == editing[1]
         IN  [ k \in DOMAIN initialData \cup resetStrings \cup resetNumbers |->
                 IF k \in resetStrings THEN OrStr(initialData, k, << >>)
                 ELSE IF k \in resetNumbers THEN OrNum(initialData, k, 0)
                 ELSE initialData[k] ]

\* const rate = watch("exchangeRate") || 7.2
formRate(values) == OrNum(values, "exchangeRate", DEFAULT_EXCHANGE_RATE)

oceanProfitCNY(values) ==
    (OrNum(values, "oceanFreightPrice", 0) - OrNum(values, "oceanFreightCost", 0))
        * formRate(values)

RECURSIVE totalAdditionalProfit(_, _)
totalAdditionalProfit(values, n) ==
    IF n = 0 THEN 0
    ELSE totalAdditionalProfit(values, n - 1)
         + (OrNum(values, PriceKey(feeKeys[n]), 0)
            - OrNum(values, CostKey(feeKeys[n]), 0))

estimatedProfitOf(values) ==
    LET truckingProfit == OrNum(values, "truckingFeePrice", 0)
                          - OrNum(values, "truckingFeeCost", 0)
        customsProfit == OrNum(values, "customsFeePrice", 0)
                         - OrNum(values, "customsFeeCost", 0)
    IN  oceanProfitCNY(values)
        + 10 * (truckingProfit + customsProfit
                + totalAdditionalProfit(values, Len(feeKeys)))

----------------------------------------------------------------------------
(* StatsView: the profit of one record as the statistics view adds it *)

statsRate(s) == OrNum(s, "exchangeRate", DEFAULT_EXCHANGE_RATE)

statsOcean(s) ==
    (OrNum(s, "oceanFreightPrice", 0) - OrNum(s, "oceanFreightCost", 0))
        * statsRate(s)

statsProfit(s) ==
    LET truck == OrNum(s, "truckingFeePrice", 0) - OrNum(s, "truckingFeeCost", 0)
        customs == OrNum(s, "customsFeePrice", 0) - OrNum(s, "customsFeeCost", 0)
    IN  statsOcean(s) + 10 * (truck + customs)

----------------------------------------------------------------------------
(* Dates.  A Date value is the number of its local calendar day, counted   *)
(* from 1970-01-01 (day 0): every use the statistics view makes of a Date  *)
(* (getFullYear, format with yyyy, MM, dd, startOfWeek) depends on the     *)
(* local calendar day only.  createdAt is a timestamp in hours.            *)

\* Gregorian leap year
IsLeapYear(y) == (y % 4 = 0 /\ y % 100 # 0) \/ y % 400 = 0

\* the number of leap years before year y, counted from 1970
LeapYearsBefore(y) ==
    ((y - 1) \div 4) - ((y - 1) \div 100) + ((y - 1) \div 400) - 477

\* the days of a common year before month m
DaysBeforeMonth ==
    << 0, 31, 59, 90, 120, 151, 181, 212, 243, 273, 304, 334 >>

\* the days of year y before month m
DaysBefore(y, m) ==
    DaysBeforeMonth[m] + (IF m > 2 /\ IsLeapYear(y) THEN 1 ELSE 0)

\* the day number of the civil date y-m-d
DaysFromCivil(y, m, d) ==
    365 * (y - 1970) + LeapYearsBefore(y) + DaysBefore(y, m) + d - 1

\* the calendar year of a day number (from 1970 on): a year has at most 366
\* days, so the year is the one date \div 366 years after 1970 or the next
YearOfDay(date) ==
    IF date < DaysFromCivil(1971 + (date \div 366), 1, 1)
    THEN 1970 + (date \div 366)
    ELSE 1971 + (date \div 366)

\* the month that holds day doy (from 0) of year y
MonthOfYearDay(y, doy) ==
    CHOOSE m \in 1..12 :
        DaysBefore(y, m) <= doy /\ (m < 12 => doy < DaysBefore(y, m + 1))

MonthOfDay(date) ==
    MonthOfYearDay(YearOfDay(date), date - DaysFromCivil(YearOfDay(date), 1, 1))

DayOfMonth(date) ==
    date - DaysFromCivil(YearOfDay(date), MonthOfDay(date), 1) + 1

\* parseISO("yyyy-MM-dd"): local midnight of that day
parseISO(str) == DaysFromCivil(str[1], str[2], str[3])

\* new Date(createdAt)
newDate(createdAt) == createdAt \div 24

getFullYear(date) == YearOfDay(date)

\* Date.prototype.getDay: 0 = Sunday (1970-01-01 was a Thursday)
getDay(date) == (date + 4) % 7

\* startOfWeek(d, { weekStartsOn: 1 })   (mutant: weeks start on Sunday)
startOfWeek_Sunday(date) == date - getDay(date)

startOfWeek(date) ==
    LET day == getDay(date)
        diff == (IF day < 1 THEN 7 ELSE 0) + day - 1
    IN  date - diff

\* strings of digits and '-' are sequences of character codes
Pad2(n) == << 48 + ((n \div 10) % 10), 48 + (n % 10) >>

Pad4(n) == << 48 + ((n \div 1000) % 10), 48 + ((n \div 100) % 10) >> \o Pad2(n)

\* format(d, 'yyyy-MM')
formatMonth(date) == Pad4(YearOfDay(date)) \o << 45 >> \o Pad2(MonthOfDay(date))

\* format(d, 'yyyy-MM-dd')
formatDay(date) == formatMonth(date) \o << 45 >> \o Pad2(DayOfMonth(date))

\* const d = s.loadingDate ? parseISO(s.loadingDate) : new Date(s.createdAt)
anchorDate_CreatedOnly(s) == newDate(s.createdAt)

anchorDate(s) ==
    IF Truthy(s, "loadingDate") THEN parseISO(s.loadingDate)
    ELSE newDate(s.createdAt)

----------------------------------------------------------------------------
(* Arrays, string comparison and Map *)

Min(a, b) == IF a < b THEN a ELSE b

\* a < b in UTF-16 code unit order
LexLess(a, b) ==
    \E i \in 1..(Min(Len(a), Len(b)) + 1) :
        /\ \A j \in 1..(i - 1) : a[j] = b[j]
        /\ \/ i > Len(a) /\ i <= Len(b)
           \/ i <= Len(a) /\ i <= Len(b) /\ a[i] < b[i]

\* a.localeCompare(b) on strings of digits and '-'
localeCompare(a, b) == IF LexLess(a, b) THEN -1 ELSE IF a = b THEN 0 ELSE 1

\* the comparators the statistics view sorts with
\*   "byCountDescending": (a, b) => b[1] - a[1]
\*   "byDateStr": (a, b) => a.dateStr.localeCompare(b.dateStr)
\*   "default": sort() without a comparator, strings in code unit order
compare(order, a, b) ==
    IF order = "byCountDescending" THEN b.count - a.count
    ELSE IF order = "byDateStr" THEN localeCompare(a.dateStr, b.dateStr)
    ELSE localeCompare(a, b)

\* Array.prototype.sort: a stable sort (ECMAScript 2019), so an element goes
\* after those that compare smaller and after the equal ones before it
ArraySort(arr, order) ==
    LET pos(i) == 1 + Cardinality({ j \in DOMAIN arr :
                        \/ compare(order, arr[j], arr[i]) < 0
                        \/ compare(order, arr[j], arr[i]) = 0 /\ j < i })
    IN  [ p \in DOMAIN arr |-> arr[CHOOSE i \in DOMAIN arr : pos(i) = p] ]

\* arr.slice(0, n)
slice(arr, n) == SubSeq(arr, 1, Min(n, Len(arr)))

\* A Map is the sequence of its entries in insertion order.
mapHas(map, key) == \E i \in DOMAIN map : map[i].key = key

\* map.set(name, (map.get(name) || 0) + 1)
mapIncrement(map, key) ==
    IF mapHas(map, key)
    THEN [ i \in DOMAIN map |->
             IF map[i].key = key THEN [map[i] EXCEPT !.count = @ + 1] ELSE map[i] ]
    ELSE Append(map, [key |-> key, count |-> 1])

\* shipments.filter(pred) is SelectSeq

----------------------------------------------------------------------------
(* StatsView: the memoised aggregates.  A growth rate is held as the       *)
(* fraction [n, d] (n / d), since the division is not exact on integers.   *)
(* The label of a bucket is presentation only and is not modelled.         *)

\* new Date().getFullYear()
CurrentYear == 2025

ViewModes == { "day", "week", "month" }

Number(x) == [n |-> x, d |-> 1]

Fraction(a, b) == [n |-> a, d |-> b]

\* mutant: the fallback to createdAt is forgotten when selecting the year
yearShipments_NoFallback(all, year) ==
    SelectSeq(all, LAMBDA s : Truthy(s, "loadingDate")
                              /\ getFullYear(parseISO(s.loadingDate)) = year)

\* mutant: the records are not filtered by the year
yearShipments_AllYears(all, year) == all

yearShipments(all, year) ==
    SelectSeq(all, LAMBDA s : getFullYear(anchorDate(s)) = year)

\* years.add(...) over all shipments, plus the current year
availableYears(all) ==
    {CurrentYear} \cup { getFullYear(anchorDate(all[i])) : i \in DOMAIN all }

\* yearShipments.forEach(s => currentProfit += ocean + truck + customs)
RECURSIVE currentProfit(_, _)
currentProfit(ys, n) ==
    IF n = 0 THEN 0 ELSE currentProfit(ys, n - 1) + statsProfit(ys[n])

\* the Map monthlyStats after the first n records
RECURSIVE monthlyStats(_, _)
monthlyStats(ys, n) ==
    IF n = 0 THEN << >>
    ELSE LET map == monthlyStats(ys, n - 1)
             s == ys[n]
             k == formatMonth(anchorDate(s))
             m1 == IF mapHas(map, k) THEN map
                   ELSE Append(map, [key |-> k, vol |-> 0, profit |-> 0])
         IN  [ i \in DOMAIN m1 |->
                 IF m1[i].key = k
                 THEN [m1[i] EXCEPT !.vol = @ + 1, !.profit = @ + statsProfit(s)]
                 ELSE m1[i] ]

mapGet(map, key) == map[CHOOSE i \in DOMAIN map : map[i].key = key]

\* Array.from(monthlyStats.keys()).sort()   (mutant: the keys are left unsorted)
sortedMonths_Unsorted(map) == [ i \in DOMAIN map |-> map[i].key ]

sortedMonths(map) ==
    ArraySort([ i \in DOMAIN map |-> map[i].key ], "default")

\* mutant: no special case for prev.profit === 0 (0 is reported instead)
pGrowth_NoSaturation(curr, prev) ==
    IF prev.profit = 0 THEN Number(0)
    ELSE Fraction((curr.profit - prev.profit) * 100, prev.profit)

pGrowth(curr, prev) ==
    IF prev.profit = 0 THEN Number(100)
    ELSE Fraction((curr.profit - prev.profit) * 100, prev.profit)

\* mutant: a previous month of one record is treated as an empty one
vGrowth_SaturatesAtOne(curr, prev) ==
    IF prev.vol <= 1 THEN Number(100)
    ELSE Fraction((curr.vol - prev.vol) * 100, prev.vol)

vGrowth(curr, prev) ==
    IF prev.vol = 0 THEN Number(100)
    ELSE Fraction((curr.vol - prev.vol) * 100, prev.vol)

\* the totals returned with the growth between two months' buckets
totalsWithGrowth(currentVol, profit, curr, prev) ==
    [vol |-> currentVol, profit |-> profit,
     volGrowth |-> vGrowth(curr, prev), profitGrowth |-> pGrowth(curr, prev)]

\* the growth is taken between the last two of the sorted months, when there
\* are two
totalsOfMonths(currentVol, profit, map, months) ==
    IF Len(months) < 2
    THEN [vol |-> currentVol, profit |-> profit,
          volGrowth |-> Number(0), profitGrowth |-> Number(0)]
    ELSE totalsWithGrowth(currentVol, profit,
                          mapGet(map, months[Len(months)]),
                          mapGet(map, months[Len(months) - 1]))

\* the totals of a year that has records, from its map of months
totalsOfMap(currentVol, profit, map) ==
    totalsOfMonths(currentVol, profit, map, sortedMonths(map))

\* 1. Annual totals + MoM growth
annualTotals(ys) ==
    IF Len(ys) = 0
    THEN [vol |-> 0, profit |-> 0, volGrowth |-> Number(0),
          profitGrowth |-> Number(0)]
    ELSE totalsOfMap(Len(ys), currentProfit(ys, Len(ys)), monthlyStats(ys, Len(ys)))

\* s.client || "Unknown"
clientName(s) == OrStr(s, "client", << "Unknown" >>)

\* a template literal prints a missing value as "undefined"
Interpolate(s, key) == IF key \in DOMAIN s THEN s[key] ELSE << "undefined" >>

\* `${s.pol} -> ${s.pod}`
routeName(s) == Interpolate(s, "pol") \o << " -> " >> \o Interpolate(s, "pod")

\* s.containerType || "Other"
containerTypeName(s) == OrStr(s, "containerType", << "Other" >>)

RECURSIVE clientCounts(_, _)
clientCounts(ys, n) ==
    IF n = 0 THEN << >>
    ELSE mapIncrement(clientCounts(ys, n - 1), clientName(ys[n]))

RECURSIVE routeCounts(_, _)
routeCounts(ys, n) ==
    IF n = 0 THEN << >>
    ELSE mapIncrement(routeCounts(ys, n - 1), routeName(ys[n]))

RECURSIVE typeCounts(_, _)
typeCounts(ys, n) ==
    IF n = 0 THEN << >>
    ELSE mapIncrement(typeCounts(ys, n - 1), containerTypeName(ys[n]))

\* mutant: the entries are cut to five before they are sorted
topFive_CutFirst(map) == ArraySort(slice(map, 5), "byCountDescending")

\* Array.from(map.entries()).sort((a, b) => b[1] - a[1]).slice(0, 5)
topFive(map) == slice(ArraySort(map, "byCountDescending"), 5)

\* 2. Top clients   (mutant: an empty client keeps its own empty name)
topClients_NoPlaceholder(ys) ==
    LET RECURSIVE counts(_)
        counts(n) == IF n = 0 THEN << >>
                     ELSE mapIncrement(counts(n - 1), OrStr(ys[n], "client", << >>))
        top == topFive(counts(Len(ys)))
    IN  [ i \in DOMAIN top |-> [name |-> top[i].key, count |-> top[i].count] ]

topClients(ys) ==
    LET top == topFive(clientCounts(ys, Len(ys)))
    IN  [ i \in DOMAIN top |-> [name |-> top[i].key, count |-> top[i].count] ]

\* 3. Top routes
topRoutes(ys) ==
    LET top == topFive(routeCounts(ys, Len(ys)))
    IN  [ i \in DOMAIN top |-> [route |-> top[i].key, count |-> top[i].count] ]

\* 4. Container type distribution   (mutant: records without a type are skipped)
containerTypes_SkipMissing(ys) ==
    LET typed == SelectSeq(ys, LAMBDA s : Truthy(s, "containerType"))
        map == typeCounts(typed, Len(typed))
    IN  [ i \in DOMAIN map |-> [name |-> map[i].key, value |-> map[i].count] ]

containerTypes(ys) ==
    LET map == typeCounts(ys, Len(ys))
    IN  [ i \in DOMAIN map |-> [name |-> map[i].key, value |-> map[i].count] ]

\* the key of the bucket of a date under a view mode
bucketKey(date, mode) ==
    IF mode = "day" THEN formatDay(date)
    ELSE IF mode = "week" THEN formatDay(startOfWeek(date))
    ELSE formatMonth(date)

\* the Map grouped after the first n records
RECURSIVE grouped(_, _, _)
grouped(ys, mode, n) ==
    IF n = 0 THEN << >>
    ELSE LET map == grouped(ys, mode, n - 1)
             s == ys[n]
             key == bucketKey(anchorDate(s), mode)
             m1 == IF \E i \in DOMAIN map : map[i].dateStr = key THEN map
                   ELSE Append(map, [dateStr |-> key, volume |-> 0, profit |-> 0])
         IN  [ i \in DOMAIN m1 |->
                 IF m1[i].dateStr = key
                 THEN [m1[i] EXCEPT !.volume = @ + 1, !.profit = @ + statsProfit(s)]
                 ELSE m1[i] ]

\* 5. Chart data   (mutant: the buckets are left in insertion order)
chartData_Unsorted(ys, mode) == grouped(ys, mode, Len(ys))

chartData(ys, mode) == ArraySort(grouped(ys, mode, Len(ys)), "byDateStr")

monthlyProfitData(ys) ==
    LET all == ArraySort(grouped(ys, "month", Len(ys)), "byDateStr")
    IN  [ i \in DOMAIN all |-> [dateStr |-> all[i].dateStr, profit |-> all[i].profit] ]

\* mutant: the monthly profit series follows the granularity of the chart
statsOf_MonthlyFollowsMode(ys, mode) ==
    annualTotals(ys) @@
    [ topClients |-> topClients(ys),
      topRoutes |-> topRoutes(ys),
      containerTypes |-> containerTypes(ys),
      chartData |-> chartData(ys, mode),
      monthlyProfitData |-> chartData(ys, mode) ]

\* what the view computes from the records of the selected year
statsOf(ys, mode) ==
    annualTotals(ys) @@
    [ topClients |-> topClients(ys),
      topRoutes |-> topRoutes(ys),
      containerTypes |-> containerTypes(ys),
      chartData |-> chartData(ys, mode),
      monthlyProfitData |-> monthlyProfitData(ys) ]

\* everything the statistics view shows for a collection, a year and a mode
StatsView(all, year, mode) == statsOf(yearShipments(all, year), mode)

----------------------------------------------------------------------------
(* ShipmentList: search and filters.  A text the search reads is a         *)
(* sequence of characters.                                                 *)

UpperCase == << "A", "B", "C", "D", "E", "F", "G", "H", "I", "J", "K", "L", "M",
                "N", "O", "P", "Q", "R", "S", "T", "U", "V", "W", "X", "Y", "Z" >>

LowerCase == << "a", "b", "c", "d", "e", "f", "g", "h", "i", "j", "k", "l", "m",
                "n", "o", "p", "q", "r", "s", "t", "u", "v", "w", "x", "y", "z" >>

\* mutant: the text is left as typed
toLowerCase_Identity(str) == str

\* String.prototype.toLowerCase
toLowerCase(str) ==
    [ i \in DOMAIN str |->
        IF \E k \in DOMAIN UpperCase : UpperCase[k] = str[i]
        THEN LowerCase[CHOOSE k \in DOMAIN UpperCase : UpperCase[k] = str[i]]
        ELSE str[i] ]

\* String.prototype.includes
includes(str, search) ==
    \E i \in 0..(Len(str) - Len(search)) : SubSeq(str, i + 1, i + Len(search)) = search

\* the value of the filter selects that stands for no filter
ALL == << "a", "l", "l" >>

\* the fields matchesSearch reads without a guard, in the order of the || chain
searchFields == << "bookingNo", "businessNo", "containerNo", "shipper" >>

\* item.client && item.client.toLowerCase().includes(searchQuery.toLowerCase())
clientMatches(item, query) ==
    Truthy(item, "client") /\ includes(toLowerCase(item.client), toLowerCase(query))

\* the || chain from its n-th operand on: "true", "false", or "TypeError" where
\* toLowerCase is called on undefined or null before an operand is true
RECURSIVE matchesSearchFrom(_, _, _)
matchesSearchFrom(item, query, n) ==
    IF n > Len(searchFields)
    THEN IF clientMatches(item, query) THEN "true" ELSE "false"
    ELSE IF searchFields[n] \notin DOMAIN item THEN "TypeError"
    ELSE IF includes(toLowerCase(item[searchFields[n]]), toLowerCase(query)) THEN "true"
    ELSE matchesSearchFrom(item, query, n + 1)

matchesSearch(item, query) == matchesSearchFrom(item, query, 1)

\* filterType === "all" || item.containerType === filterType
matchesFilter(item, type) ==
    type = ALL \/ ("containerType" \in DOMAIN item /\ item.containerType = type)

\* mutant: a record without a client passes no client filter, not even "all"
matchesClient_NeedsClient(item, client) ==
    Truthy(item, "client") /\ (client = ALL \/ item.client = client)

\* clientFilter === "all" || item.client === clientFilter
matchesClient(item, client) ==
    client = ALL \/ ("client" \in DOMAIN item /\ item.client = client)

\* mutant: the three predicates are joined by || where && is meant
keeps_AnyPredicate(item, query, type, client) ==
    matchesSearch(item, query) = "true" \/ matchesFilter(item, type)
        \/ matchesClient(item, client)

\* matchesSearch && matchesFilter && matchesClient
keeps(item, query, type, client) ==
    matchesSearch(item, query) = "true" /\ matchesFilter(item, type)
        /\ matchesClient(item, client)

\* shipments.filter(item => ...): the rows that match, or the TypeError that
\* matchesSearch throws on the first item that has one
filteredShipments(all, query, type, client) ==
    IF \E i \in DOMAIN all : matchesSearch(all[i], query) = "TypeError"
    THEN [threw |-> TRUE, value |-> << >>]
    ELSE [threw |-> FALSE,
          value |-> SelectSeq(all, LAMBDA item : keeps(item, query, type, client))]

\* Array.from(new Set(shipments.map(s => s.client))).filter(Boolean): the
\* options of the client select next to "all"
uniqueClients(all) ==
    { all[i].client : i \in { j \in DOMAIN all : Truthy(all[j], "client") } }

\* the options of the container type select
TypeOptions == { ALL, << "20GP" >>, << "40GP" >>, << "40HQ" >>, << "45HQ" >> }

----------------------------------------------------------------------------
(* Record collections the views are run on *)

\* a createdAt timestamp: hour h of the day y-m-d
At(y, m, d, h) == DaysFromCivil(y, m, d) * 24 + h

\* all sequences over S of length at most n
SeqsUpTo(S, n) == UNION { [1..k -> S] : k \in 0..n }

\* ids are unique in a collection: the record at position i gets the id "i"
WithIds(records) == [ i \in DOMAIN records |-> With(records[i], "id", << i >>) ]

\* fetchShipments orders by createdAt, descending
NewestFirst(records) ==
    \A i \in 1..(Len(records) - 1) : records[i].createdAt >= records[i + 1].createdAt

\* a record with every fee 0, as the form's defaults submit it
Blank ==
    [ k \in DOMAIN defaultValues \cup {"createdAt"} |->
        IF k = "createdAt" THEN At(2025, 3, 5, 10)
        ELSE IF k = "loadingDate" THEN << 2025, 1, 15 >>
        ELSE IF k \in {"client", "shipper"} THEN << "Acme" >>
        ELSE IF k = "pol" THEN << "Ningbo" >>
        ELSE IF k = "pod" THEN << "Hamburg" >>
        ELSE IF k = "containerType" THEN << "40HQ" >>
        ELSE IF k \in {"bookingNo", "businessNo", "containerNo"} THEN << "B", "1" >>
        ELSE defaultValues[k] ]

Set(record, key, value) == [record EXCEPT ![key] = value]

\* ocean 1000/1200 at rate 7.0, trucking 500/600, customs 200/250, all else 0
Example ==
    [Blank EXCEPT !.oceanFreightCost = 1000, !.oceanFreightPrice = 1200,
                  !.exchangeRate = 70,
                  !.truckingFeeCost = 500, !.truckingFeePrice = 600,
                  !.customsFeeCost = 200, !.customsFeePrice = 250]

FeeFields ==
    { "oceanFreightCost", "oceanFreightPrice", "truckingFeeCost",
      "truckingFeePrice", "customsFeeCost", "customsFeePrice" }
    \cup { CostKey(feeKeys[i]) : i \in DOMAIN feeKeys }
    \cup { PriceKey(feeKeys[i]) : i \in DOMAIN feeKeys }

\* the example with one fee field missing, 0, positive or negative, and the
\* ocean pair under every kind of exchange rate (missing, 0, 6.5, 7.0)
ListPool ==
    { Without(Example, f) : f \in FeeFields }
    \cup { Set(Example, f, v) : f \in FeeFields, v \in {0, 30, -20} }
    \cup { Without(Set(Set(Blank, "oceanFreightCost", c), "oceanFreightPrice", p),
                   "exchangeRate") : c \in {0, 1000}, p \in {0, 1000, 1200} }
    \cup { Set(Set(Set(Example, "oceanFreightCost", c), "oceanFreightPrice", p),
               "exchangeRate", r) :
             c \in {0, 1000}, p \in {0, 1000, 1200}, r \in {0, 65, 70} }

ListCollections ==
    { WithIds(records) : records \in SeqsUpTo(ListPool, MaxListRecords) }

\* records of the statistics view: two days of one week that starts in the
\* year before, a later week of the same month, two records of one day in
\* the next month, a record dated by createdAt, and two records of 2024
StatsPool ==
    { [Blank EXCEPT !.loadingDate = << 2025, 1, 1 >>,
                    !.truckingFeeCost = 500, !.truckingFeePrice = 600],
      [Blank EXCEPT !.loadingDate = << 2025, 1, 3 >>],
      Without([Blank EXCEPT !.loadingDate = << 2025, 1, 6 >>,
                            !.oceanFreightCost = 1000, !.oceanFreightPrice = 1200,
                            !.exchangeRate = 70], "containerType"),
      [Blank EXCEPT !.loadingDate = << 2025, 2, 10 >>,
                    !.truckingFeePrice = 150, !.containerType = << "20GP" >>],
      [Blank EXCEPT !.loadingDate = << >>, !.customsFeeCost = 50,
                    !.containerType = << >>],
      [Blank EXCEPT !.loadingDate = << 2024, 12, 30 >>, !.thcPrice = 100],
      Without([Blank EXCEPT !.loadingDate = << 2025, 2, 10 >>, !.thcPrice = 80,
                            !.oceanFreightPrice = 10], "exchangeRate"),
      Without([Blank EXCEPT !.createdAt = At(2024, 12, 31, 23),
                            !.containerType = << "Other" >>], "loadingDate") }

StatsCollections ==
    { WithIds(records) : records \in
        { r \in SeqsUpTo(StatsPool, MaxStatsRecords) : NewestFirst(r) } }

\* records of the top lists: a fixed list of five clients over four routes,
\* and free records of two of these clients, of an empty, a missing and a
\* client literally named as the placeholder, and one record of 2024
Shipped(client, pol, pod) ==
    [Blank EXCEPT !.client = client, !.pol = pol, !.pod = pod]

TopPool ==
    { Shipped(<< "Acme" >>, << "Ningbo" >>, << "Hamburg" >>),
      Shipped(<< "Beta" >>, << "Yantian" >>, << "Hamburg" >>),
      Shipped(<< >>, << "Yantian" >>, << "Rotterdam" >>),
      Without(Shipped(<< >>, << "Qingdao" >>, << "Hamburg" >>), "client"),
      Shipped(<< "Unknown" >>, << "Qingdao" >>, << "Hamburg" >>),
      [Shipped(<< "Acme" >>, << "Ningbo" >>, << "Hamburg" >>)
          EXCEPT !.loadingDate = << 2024, 6, 1 >>] }

\* a collection starts or ends with one of these lists
TopBases ==
    { << >>,
      << Shipped(<< "Acme" >>, << "Ningbo" >>, << "Hamburg" >>),
         Shipped(<< "Beta" >>, << "Ningbo" >>, << "Hamburg" >>),
         Shipped(<< "Gamma" >>, << "Ningbo" >>, << "Rotterdam" >>),
         Shipped(<< "Delta" >>, << "Shanghai" >>, << "Hamburg" >>),
         Shipped(<< "Eps" >>, << "Shanghai" >>, << "Rotterdam" >>) >> }

TopCollections ==
    { WithIds(records) : records \in
        UNION { { base \o free, free \o base } :
                  base \in TopBases, free \in SeqsUpTo(TopPool, MaxTopFree) } }

\* records of the list's search: each of the five fields read by the search
\* is the only one to hold "abc" in some record, in upper, lower or mixed
\* case; "zz" is held by a port only; a client is empty, missing, or differs
\* from another in case only; a container type is missing
Listed(bookingNo, businessNo, containerNo, shipper, client, containerType) ==
    [Blank EXCEPT !.bookingNo = bookingNo, !.businessNo = businessNo,
                  !.containerNo = containerNo, !.shipper = shipper,
                  !.client = client, !.containerType = containerType]

FilterPool ==
    { [Listed(<< "A", "B", "C", "1", "2", "3" >>, << "x", "9" >>, << "c", "u", "7" >>,
              << "b", "o", "b" >>, << "A", "n", "n" >>, << "40HQ" >>)
          EXCEPT !.pol = << "z", "z" >>],
      Listed(<< "k", "1" >>, << "a", "B", "c" >>, << "c", "u", "8" >>,
             << "B", "o" >>, << >>, << "20GP" >>),
      Without(Listed(<< "k", "2" >>, << "x", "8" >>, << "A", "B", "c" >>,
                     << "z", "e", "d" >>, << >>, << "40HQ" >>), "client"),
      Listed(<< "k", "3" >>, << "x", "7" >>, << "c", "u", "9" >>,
             << "n" >>, << "a", "n", "n" >>, << "45HQ" >>),
      Without(Listed(<< "k", "4" >>, << "x", "6" >>, << "c", "u", "6" >>,
                     << "s" >>, << "x", "a", "b", "c", "x" >>, << "40HQ" >>),
              "containerType") }

FilterCollections ==
    { WithIds(records) : records \in SeqsUpTo(FilterPool, MaxFilterRecords) }

\* rows as the database may hand them to `data as ShipmentRecord[]`: a text
\* column the search reads may be null
LoadedPool ==
    FilterPool
    \cup { Without(r, f) : r \in { q \in FilterPool : q.bookingNo = << "k", "1" >> },
                           f \in { "bookingNo", "businessNo", "shipper" } }

LoadedCollections ==
    { WithIds(records) : records \in SeqsUpTo(LoadedPool, MaxFilterRecords) }

\* the texts typed into the search box
Queries ==
    { << >>, << "a", "b", "c" >>, << "z", "z" >>, << "o", "B" >>, << "n" >> }

\* records of all views together: two of 2025, one of them without a client
\* name, and one of 2024
ViewPool ==
    { r \in FilterPool : r.bookingNo \in { << "A", "B", "C", "1", "2", "3" >>, << "k", "1" >> } }
    \cup { [r EXCEPT !.loadingDate = << 2024, 6, 1 >>] :
             r \in { q \in FilterPool : q.bookingNo = << "k", "3" >> } }

ViewCollections ==
    { WithIds(records) : records \in SeqsUpTo(ViewPool, MaxViewRecords) }

\* records of the detail export: the worked example; with two additional
\* fees charged; with a negative cost in one of the fees the form does not
\* bound; with a main cost missing; with the price of a fee missing
ExportPool ==
    { Example,
      [Example EXCEPT !.thcCost = 50, !.thcPrice = 80, !.insuranceFeePrice = 40],
      [Example EXCEPT !.vgmFeeCost = -5],
      Without(Example, "truckingFeeCost"),
      Without(Example, "handlingFeePrice") }

ExportCollections ==
    { WithIds(records) : records \in SeqsUpTo(ExportPool, MaxViewRecords) }

----------------------------------------------------------------------------
(* The views *)

----------------------------------------------------------------------------
(* useShipmentStore: the optimistic writes and their rollback *)

\* mutant: the provisional id is one that is in use already
randomUUID_Reused(n) == << 1 >>

\* crypto.randomUUID(), and the id the database gives a new row: the n-th id
randomUUID(n) == << n >>

\* new Date() at the time of a write
Now == At(2025, 3, 5, 10)

\* { ...shipment, id: tempId, createdAt: new Date().toISOString() }
newRecord(shipment, tempId) == With(With(shipment, "id", tempId), "createdAt", Now)

\* { ...s, ...updatedShipment }
spread(s, updatedShipment) ==
    [ k \in DOMAIN s \cup DOMAIN updatedShipment |->
        IF k \in DOMAIN updatedShipment THEN updatedShipment[k] ELSE s[k] ]

\* [newRecord, ...state.shipments]
optimisticAdd(list, record) == << record >> \o list

\* mutant: the provisional record stays in the list
revertAdd_Keeps(list, tempId) == list

\* state.shipments.filter(s => s.id !== tempId)
revertAdd(list, tempId) == SelectSeq(list, LAMBDA s : s.id # tempId)

\* state.shipments.map(s => s.id === id ? { ...s, ...updatedShipment } : s)
optimisticUpdate(list, id, updatedShipment) ==
    [ i \in DOMAIN list |->
        IF list[i].id = id THEN spread(list[i], updatedShipment) ELSE list[i] ]

\* state.shipments.filter(s => !ids.includes(s.id)); deleteShipment is the
\* case of one id
optimisticDelete(list, ids) == SelectSeq(list, LAMBDA s : s.id \notin ids)

\* the row the database stores for an insert: the database sets id and
\* createdAt, the later the row the later its createdAt
insertedRow(shipment, n) ==
    With(With(With(shipment, "user_id", << "user" >>), "id", randomUUID(n)),
         "createdAt", Now + n)

\* error.message of a failed request
message(op) == << "failed", op >>

\* the values zod hands to onSubmit: the fields of shipmentSchema only
parsed(values) == [ k \in DOMAIN defaultValues |-> values[k] ]

\* the strings shipmentSchema requires to be non-empty
requiredStrings ==
    { "bookingNo", "businessNo", "shipper", "client", "pol", "pod",
      "containerType", "containerNo" }

\* the fees shipmentSchema requires to be at least 0
nonNegativeFees ==
    { CostKey(feeKeys[i]) : i \in 1..8 } \cup { PriceKey(feeKeys[i]) : i \in 1..8 }
    \cup { "oceanFreightCost", "oceanFreightPrice", "truckingFeeCost",
           "truckingFeePrice", "customsFeeCost", "customsFeePrice" }

\* shipmentSchema accepts the values (the rate is held in tenths)
validates(values) ==
    /\ \A k \in requiredStrings : values[k] # << >>
    /\ \A k \in nonNegativeFees : values[k] >= 0
    /\ values.exchangeRate >= 1

\* a call of one of the store's async functions.  pc is "sent" while the
\* request is on its way, "responded" once a select has returned its rows and
\* "done" once the function has run to its end; snapshot is originalShipments, data
\* the rows a select returned.  before, alone, followUpOf and onSuccess record
\* the collection at the start, whether no other call was in flight with it,
\* the provisional id of the addShipment call that started a fetch, and
\* whether the caller has gone on to onSuccess().
Call(op, ids, payload, snapshot, before, followUpOf, onSuccess) ==
    [ op |-> op, pc |-> "sent", result |-> "none", ids |-> ids,
      payload |-> payload, snapshot |-> snapshot, data |-> << >>,
      resolved |-> "pending", before |-> before, alone |-> TRUE,
      followUpOf |-> followUpOf, onSuccess |-> onSuccess ]

\* the calls in flight after one more has started: it is alone if none is
\* in flight, and those in flight are alone no more
started(cs, call) ==
    [ c \in DOMAIN cs |-> [cs[c] EXCEPT !.alone = FALSE] ]
    \o << [call EXCEPT !.alone = (cs = << >>)] >>

\* the calls in flight without the c-th
finished(cs, c) == SubSeq(cs, 1, c - 1) \o SubSeq(cs, c + 1, Len(cs))

\* the rows a request leaves in the table
remote(call, table, n) ==
    IF call.op = "add" THEN << insertedRow(call.payload, n) >> \o table
    ELSE IF call.op = "update"
    THEN optimisticUpdate(table, CHOOSE id \in call.ids : TRUE, call.payload)
    ELSE IF call.op = "fetch" THEN table
    ELSE optimisticDelete(table, call.ids)

\* the number of rows a request changes: one postgres_changes event each
changes(call, table) ==
    IF call.op = "add" THEN 1
    ELSE IF call.op = "fetch" THEN 0
    ELSE Cardinality({ i \in DOMAIN table : table[i].id \in call.ids })

\* the store starts with one or two rows fetched
StoreCollections ==
    { WithIds(<< Shipped(<< "Acme" >>, << "Ningbo" >>, << "Hamburg" >>) >>),
      WithIds(<< Shipped(<< "Acme" >>, << "Ningbo" >>, << "Hamburg" >>),
                 Shipped(<< "Beta" >>, << "Yantian" >>, << "Hamburg" >>) >>) }

\* the values of a form filled in for a new record: a plain one, one with a
\* negative cost typed into one of the first eleven fees and one with a
\* negative cost typed into one of the last six
Drafts ==
    { parsed(Shipped(<< "Nova" >>, << "Qingdao" >>, << "Hamburg" >>)),
      [parsed(Shipped(<< "Nova" >>, << "Qingdao" >>, << "Hamburg" >>))
          EXCEPT !.thcCost = -1],
      [parsed(Shipped(<< "Nova" >>, << "Qingdao" >>, << "Hamburg" >>))
          EXCEPT !.vgmFeeCost = -5] }

\* the client typed into the form of a record that is edited
EditedClients == { << "Gamma" >> }

\* mutant: the placeholder of a missing client is written into the record
afterRender_FillsClient(all) ==
    [ i \in DOMAIN all |-> With(all[i], "client", clientName(all[i])) ]

\* the store's array after the views have rendered: the memoised computations
\* only read it (filter, map and Array.from copy before sort works in place)
afterRender(all) == all

\* every state change re-renders the views from the new state; a rendering
\* saves no document
Render ==
    /\ listProfit' = [ i \in DOMAIN shipments' |-> calculateTotalProfit(shipments'[i]) ]
    /\ estimatedProfit' = estimatedProfitOf(formValues')
    /\ stats' = StatsView(shipments', selectedYear', viewMode')
    /\ filtered' = filteredShipments(shipments', searchQuery', filterType', clientFilter')
    /\ exported' = exported

----------------------------------------------------------------------------
(* useAuthStore.  A session is << >> (null) or << session >>; initialize   *)
(* and logout are "idle", "awaiting" their request or "done".              *)

\* the sessions supabase may hand out: one per user
Sessions ==
    { << [user |-> [id |-> "u1"], access_token |-> 1] >>,
      << [user |-> [id |-> "u2"], access_token |-> 2] >> }

\* session?.user ?? null
userOf(session) == IF session = << >> THEN << >> ELSE << session[1].user >>

\* the store as created: session: null, user: null, loading: true
Created ==
    [ session |-> << >>, user |-> << >>, loading |-> TRUE,
      initialize |-> "idle", logout |-> "idle", changes |-> 0 ]

\* set({ session, user: session?.user ?? null, loading: false })
signedIn(state, session) ==
    [state EXCEPT !.session = session, !.user = userOf(session), !.loading = FALSE]

\* mutant: logout forgets the user
loggedOut_KeepsUser(state) == [state EXCEPT !.session = << >>]

\* set({ session: null, user: null })
loggedOut(state) == [state EXCEPT !.session = << >>, !.user = << >>]

\* the store of a user who has signed in, as the views of the dashboard see it
SignedIn ==
    [signedIn(Created, CHOOSE session \in Sessions : session[1].user.id = "u1")
        EXCEPT !.initialize = "done"]

Mounted(collections) ==
    /\ shipments \in collections
    /\ selectedYear = CurrentYear
    /\ viewMode = "month"
    /\ editingShipment = << >>
    /\ formValues = defaultValues
    /\ listProfit = [ i \in DOMAIN shipments |-> calculateTotalProfit(shipments[i]) ]
    /\ estimatedProfit = estimatedProfitOf(formValues)
    /\ stats = StatsView(shipments, selectedYear, viewMode)
    /\ searchQuery = << >>
    /\ filterType = ALL
    /\ clientFilter = ALL
    /\ selectedIds = {}
    /\ filtered = filteredShipments(shipments, searchQuery, filterType, clientFilter)
    /\ error = << >>
    /\ loading = FALSE
    /\ server = shipments
    /\ calls = << >>
    /\ lastCall = << >>
    /\ nextId = Len(shipments) + 1
    /\ notifications = 0
    /\ writes = 0
    /\ auth = SignedIn
    /\ exported = << >>

\* the list and the form over the list collections
Init == Mounted(ListCollections)

\* the statistics view over the statistics collections
InitStats == Mounted(StatsCollections)

\* the statistics view over the top-list collections
InitTop == Mounted(TopCollections)

\* the list over the search collections
InitFilter == Mounted(FilterCollections)

\* the list over rows as loaded from the database
InitLoaded == Mounted(LoadedCollections)

\* all views over the view collections
InitViews == Mounted(ViewCollections)

\* the list over the export collections
InitExport == Mounted(ExportCollections)

\* the store after its first fetch
InitStore == Mounted(StoreCollections)

\* the store after its first fetch and a click on the delete button of the
\* first of two rows: deleteShipment is at its await
InitRace ==
    \E fetched \in { c \in StoreCollections : Len(c) = 2 } :
        /\ shipments = optimisticDelete(fetched, { fetched[1].id })
        /\ selectedYear = CurrentYear
        /\ viewMode = "month"
        /\ editingShipment = << >>
        /\ formValues = defaultValues
        /\ listProfit = [ i \in DOMAIN shipments |-> calculateTotalProfit(shipments[i]) ]
        /\ estimatedProfit = estimatedProfitOf(formValues)
        /\ stats = StatsView(shipments, selectedYear, viewMode)
        /\ searchQuery = << >>
        /\ filterType = ALL
        /\ clientFilter = ALL
        /\ selectedIds = {}
        /\ filtered = filteredShipments(shipments, searchQuery, filterType, clientFilter)
        /\ error = << >>
        /\ loading = FALSE
        /\ server = fetched
        /\ calls = started(<< >>, Call("delete", { fetched[1].id }, << >>, fetched,
                                       fetched, {}, FALSE))
        /\ lastCall = << >>
        /\ nextId = Len(fetched) + 1
        /\ notifications = 0
        /\ writes = 0
        /\ auth = SignedIn
        /\ exported = << >>

\* the page just loaded: both stores as created, the table holding the rows
\* of the user who signs in first
InitAuth ==
    /\ shipments = << >>
    /\ selectedYear = CurrentYear
    /\ viewMode = "month"
    /\ editingShipment = << >>
    /\ formValues = defaultValues
    /\ listProfit = << >>
    /\ estimatedProfit = estimatedProfitOf(formValues)
    /\ stats = StatsView(shipments, selectedYear, viewMode)
    /\ searchQuery = << >>
    /\ filterType = ALL
    /\ clientFilter = ALL
    /\ selectedIds = {}
    /\ filtered = filteredShipments(shipments, searchQuery, filterType, clientFilter)
    /\ error = << >>
    /\ loading = FALSE
    /\ server \in StoreCollections
    /\ calls = << >>
    /\ lastCall = << >>
    /\ nextId = Len(server) + 1
    /\ notifications = 0
    /\ writes = 0
    /\ auth = Created
    /\ exported = << >>

\* App.handleEdit(record), then the form's reset effect
HandleEdit ==
    \E i \in DOMAIN shipments :
        /\ editingShipment' = << shipments[i] >>
        /\ formValues' = resetValues(editingShipment')
        /\ shipments' = afterRender(shipments)
        /\ UNCHANGED << selectedYear, viewMode, filterVars >>
        /\ UNCHANGED storeVars
        /\ Render

\* App.handleCreateNew(), then the form's reset effect
HandleCreateNew ==
    /\ editingShipment' = << >>
    /\ formValues' = resetValues(editingShipment')
    /\ shipments' = afterRender(shipments)
    /\ UNCHANGED << selectedYear, viewMode, filterVars >>
    /\ UNCHANGED storeVars
    /\ Render

\* StatsView: setViewMode(mode)
SetViewMode ==
    \E mode \in ViewModes :
        /\ mode # viewMode
        /\ viewMode' = mode
        /\ shipments' = afterRender(shipments)
        /\ UNCHANGED << selectedYear, editingShipment, formValues, filterVars >>
        /\ UNCHANGED storeVars
        /\ Render

\* StatsView: setSelectedYear(Number(e.target.value)), one of the year options
SetSelectedYear ==
    \E year \in availableYears(shipments) :
        /\ year # selectedYear
        /\ selectedYear' = year
        /\ shipments' = afterRender(shipments)
        /\ UNCHANGED << viewMode, editingShipment, formValues, filterVars >>
        /\ UNCHANGED storeVars
        /\ Render

\* ShipmentList: setSearchQuery(e.target.value)
SetSearchQuery ==
    \E query \in Queries :
        /\ ~filtered.threw
        /\ query # searchQuery
        /\ searchQuery' = query
        /\ shipments' = afterRender(shipments)
        /\ UNCHANGED << selectedYear, viewMode, editingShipment, formValues,
                        filterType, clientFilter, selectedIds >>
        /\ UNCHANGED storeVars
        /\ Render

\* ShipmentList: setFilterType(e.target.value), one of the type options
SetFilterType ==
    \E type \in TypeOptions :
        /\ ~filtered.threw
        /\ type # filterType
        /\ filterType' = type
        /\ shipments' = afterRender(shipments)
        /\ UNCHANGED << selectedYear, viewMode, editingShipment, formValues,
                        searchQuery, clientFilter, selectedIds >>
        /\ UNCHANGED storeVars
        /\ Render

\* ShipmentList: setClientFilter(e.target.value), one of the client options
SetClientFilter ==
    \E client \in {ALL} \cup uniqueClients(shipments) :
        /\ ~filtered.threw
        /\ client # clientFilter
        /\ clientFilter' = client
        /\ shipments' = afterRender(shipments)
        /\ UNCHANGED << selectedYear, viewMode, editingShipment, formValues,
                        searchQuery, filterType, selectedIds >>
        /\ UNCHANGED storeVars
        /\ Render

\* ShipmentList: handleSelectAll(checked), the header checkbox toggled
HandleSelectAll ==
    \E checked \in BOOLEAN :
        /\ ~filtered.threw
        /\ selectedIds' = IF checked
                          THEN { filtered.value[k].id : k \in DOMAIN filtered.value }
                          ELSE {}
        /\ selectedIds' # selectedIds
        /\ shipments' = afterRender(shipments)
        /\ UNCHANGED << selectedYear, viewMode, editingShipment, formValues,
                        searchQuery, filterType, clientFilter >>
        /\ UNCHANGED storeVars
        /\ Render

\* ShipmentList: handleSelectOne(item.id, checked), the checkbox of a row
\* toggled
HandleSelectOne ==
    \E k \in DOMAIN filtered.value :
        /\ ~filtered.threw
        /\ selectedIds' = IF filtered.value[k].id \notin selectedIds
                          THEN selectedIds \cup { filtered.value[k].id }
                          ELSE selectedIds \ { filtered.value[k].id }
        /\ shipments' = afterRender(shipments)
        /\ UNCHANGED << selectedYear, viewMode, editingShipment, formValues,
                        searchQuery, filterType, clientFilter >>
        /\ UNCHANGED storeVars
        /\ Render

\* getExportTargets()
getExportTargets(list, ids) ==
    IF ids # {} THEN SelectSeq(list, LAMBDA s : s.id \in ids) ELSE list

\* the views as they are
SameRenderOfViews == UNCHANGED << listProfit, estimatedProfit, stats, filtered >>

\* a difference or product that is NaN, as << >>, or a number, as << x >>
NaN == << >>

\* item[a] - item[b]: NaN when one of them is undefined
minus(item, a, b) ==
    IF { a, b } \subseteq DOMAIN item THEN << item[a] - item[b] >> ELSE NaN

times(x, k) == IF x = NaN THEN NaN ELSE << x[1] * k >>

\* x.toFixed(2) of an amount held in tenths: the amount printed, in
\* hundredths ("NaN" for NaN)
toFixed(x) == IF x = NaN THEN NaN ELSE << x[1] * 10 >>

\* the body of the Profit Summary table: item and profit column
profitSummary(item) ==
    << [item |-> "Ocean Freight",
        profit |-> toFixed(times(minus(item, "oceanFreightPrice", "oceanFreightCost"),
                                 listRate(item)))],
       [item |-> "Trucking",
        profit |-> toFixed(times(minus(item, "truckingFeePrice", "truckingFeeCost"), 10))],
       [item |-> "Customs",
        profit |-> toFixed(times(minus(item, "customsFeePrice", "customsFeeCost"), 10))] >>

\* Number(item[`${f.k}Cost`]) > 0 || Number(item[`${f.k}Price`]) > 0
isActive(item, key) ==
    OrNum(item, CostKey(key), 0) > 0 \/ OrNum(item, PriceKey(key), 0) > 0

\* the body of the Additional Fees Breakdown table, in the order of feeFields
activeFees(item) ==
    LET listed == SelectSeq(feeKeys, LAMBDA key : isActive(item, key))
    IN  [ f \in DOMAIN listed |->
            [item |-> listed[f],
             profit |-> toFixed(<< 10 * (OrNum(item, PriceKey(listed[f]), 0)
                                         - OrNum(item, CostKey(listed[f]), 0)) >>)] ]

\* the detail document of one record: the rows of both tables and the foot
detailExport(item) ==
    [ threw |-> FALSE, detail |-> TRUE,
      rows |-> profitSummary(item) \o activeFees(item),
      foot |-> toFixed(<< calculateTotalProfit(item) >>) ]

\* the list document: one row per target
listExport(targets) ==
    [ threw |-> FALSE, detail |-> FALSE,
      rows |-> [ t \in DOMAIN targets |->
                   [item |-> targets[t].id,
                    profit |-> toFixed(<< calculateTotalProfit(targets[t]) >>)] ],
      foot |-> NaN ]

\* item.bookingNo of an undefined item: a TypeError, and nothing is saved
noExport == [ threw |-> TRUE, detail |-> TRUE, rows |-> << >>, foot |-> NaN ]

\* handleBatchExportPDF
handleBatchExportPDF(targets, ids) ==
    IF Cardinality(ids) = 1
    THEN IF targets = << >> THEN noExport ELSE detailExport(targets[1])
    ELSE listExport(targets)

\* ShipmentList: Export PDF
HandleBatchExportPDF ==
    /\ ~filtered.threw
    /\ exported' = << handleBatchExportPDF(getExportTargets(filtered.value, selectedIds),
                                          selectedIds) >>
    /\ exported' # exported
    /\ UNCHANGED << shipments, selectedYear, viewMode, editingShipment, formValues,
                    filterVars >>
    /\ UNCHANGED storeVars
    /\ SameRenderOfViews

\* rendered again from the same state, the views show the same
SameRender == UNCHANGED << listProfit, estimatedProfit, stats, filtered, exported >>

\* the views are as they were
SameViews == UNCHANGED << selectedYear, viewMode, editingShipment, formValues, filterVars >>

Writes == { "add", "update", "delete", "deleteMany" }

\* the user starts no more than MaxWrites writes
MayWrite == writes < MaxWrites

\* addShipment(shipment) up to its first await
AddShipment(shipment, onSuccess) ==
    /\ shipments' = optimisticAdd(shipments, newRecord(shipment, randomUUID(nextId)))
    /\ nextId' = nextId + 1
    /\ calls' = started(calls, Call("add", { randomUUID(nextId) }, shipment, << >>,
                                    shipments, {}, onSuccess))
    /\ writes' = writes + 1
    /\ UNCHANGED << error, loading, server, lastCall, notifications, auth >>

\* updateShipment(id, updatedShipment) up to its await
UpdateShipment(id, updatedShipment, onSuccess) ==
    /\ shipments' = optimisticUpdate(shipments, id, updatedShipment)
    /\ calls' = started(calls, Call("update", { id }, updatedShipment, shipments,
                                    shipments, {}, onSuccess))
    /\ writes' = writes + 1
    /\ UNCHANGED << error, loading, server, lastCall, nextId, notifications, auth >>

\* deleteShipment(id) and deleteShipments(ids) up to their await
DeleteShipments(op, ids) ==
    /\ shipments' = optimisticDelete(shipments, ids)
    /\ calls' = started(calls, Call(op, ids, << >>, shipments, shipments, {}, FALSE))
    /\ writes' = writes + 1
    /\ UNCHANGED << error, loading, server, lastCall, nextId, notifications, auth >>

\* App.handleCreateNew(), the form filled in, ShipmentForm.onSubmit(data)
\* and onSuccess()
SubmitNew ==
    /\ MayWrite
    /\ \E data \in Drafts :
           /\ validates(data)
           /\ editingShipment' = << >>
           /\ formValues' = data
           /\ AddShipment(parsed(data), TRUE)
    /\ UNCHANGED << selectedYear, viewMode, filterVars >>
    /\ Render

\* App.handleEdit(record) from a row, the client changed in the form,
\* ShipmentForm.onSubmit(data) and onSuccess()
SubmitEdited ==
    /\ MayWrite
    /\ \E k \in DOMAIN filtered.value, client \in EditedClients :
           /\ editingShipment' = << filtered.value[k] >>
           /\ formValues' = [resetValues(editingShipment') EXCEPT !.client = client]
           /\ validates(formValues')
           /\ UpdateShipment(filtered.value[k].id, parsed(formValues'), TRUE)
    /\ UNCHANGED << selectedYear, viewMode, filterVars >>
    /\ Render

\* ShipmentList: the delete button of a row
DeleteRow ==
    /\ MayWrite
    /\ \E k \in DOMAIN filtered.value : DeleteShipments("delete", { filtered.value[k].id })
    /\ SameViews
    /\ Render

\* ShipmentList: every row selected with the header checkbox, then
\* handleBatchDelete
HandleBatchDelete ==
    /\ MayWrite
    /\ filtered.value # << >>
    /\ DeleteShipments("deleteMany", { filtered.value[k].id : k \in DOMAIN filtered.value })
    /\ selectedIds' = {}
    /\ UNCHANGED << selectedYear, viewMode, editingShipment, formValues,
                    searchQuery, filterType, clientFilter >>
    /\ Render

\* fetchShipments() up to its await
FetchShipments(cs, followUpOf) ==
    /\ loading' = TRUE
    /\ error' = << >>
    /\ calls' = started(cs, Call("fetch", {}, << >>, << >>, shipments, followUpOf, FALSE))

\* subscribeToChanges: a postgres_changes event arrives
OnChange ==
    /\ notifications > 0
    /\ notifications' = notifications - 1
    /\ FetchShipments(calls, {})
    /\ UNCHANGED << shipments, server, lastCall, nextId, writes, auth >>
    /\ SameViews
    /\ SameRender

\* the call after its function has returned: the promise resolves without a
\* value whatever the answer was
returned(call, result) ==
    [call EXCEPT !.pc = "done", !.result = result, !.resolved = "undefined"]

\* supabase answers a select with rows; the function goes on only later
SelectSucceeds ==
    \E c \in DOMAIN calls :
        /\ calls[c].pc = "sent"
        /\ calls[c].op = "fetch"
        /\ calls' = [calls EXCEPT ![c].pc = "responded", ![c].data = server]
        /\ UNCHANGED << shipments, error, loading, server, lastCall, nextId,
                        notifications, writes, auth >>
        /\ SameViews
        /\ SameRender

\* fetchShipments after its await: set({ shipments: data, loading: false })
FetchContinues ==
    \E c \in DOMAIN calls :
        /\ calls[c].pc = "responded"
        /\ shipments' = calls[c].data
        /\ loading' = FALSE
        /\ calls' = finished(calls, c)
        /\ lastCall' = << returned(calls[c], "ok") >>
        /\ UNCHANGED << error, server, nextId, notifications, writes, auth >>
        /\ SameViews
        /\ Render

\* supabase carries out a write and the function goes on: nothing is left to
\* do but, after an insert, to call fetchShipments().  (The write and the
\* rest of the function are one step: between them only the table differs.)
WriteSucceeds ==
    \E c \in DOMAIN calls :
        /\ calls[c].pc = "sent"
        /\ calls[c].op \in Writes
        /\ server' = remote(calls[c], server, nextId)
        /\ nextId' = IF calls[c].op = "add" THEN nextId + 1 ELSE nextId
        /\ notifications' = notifications + changes(calls[c], server)
        /\ IF calls[c].op = "add"
           THEN FetchShipments(finished(calls, c), calls[c].ids)
           ELSE /\ calls' = finished(calls, c)
                /\ UNCHANGED << error, loading >>
        /\ lastCall' = << returned(calls[c], "ok") >>
        /\ UNCHANGED << shipments, writes, auth >>
        /\ SameViews
        /\ SameRender

\* supabase answers a request with an error and the function goes on: a
\* fetch reports it, a write rolls back and reports it
RequestFails ==
    \E c \in DOMAIN calls :
        /\ calls[c].pc = "sent"
        /\ shipments' = IF calls[c].op = "fetch" THEN shipments
                        ELSE IF calls[c].op = "add"
                        THEN revertAdd(shipments, CHOOSE id \in calls[c].ids : TRUE)
                        ELSE calls[c].snapshot
        /\ error' = message(calls[c].op)
        /\ loading' = IF calls[c].op = "fetch" THEN FALSE ELSE loading
        /\ calls' = finished(calls, c)
        /\ lastCall' = << returned(calls[c], "error") >>
        /\ UNCHANGED << server, nextId, notifications, writes, auth >>
        /\ SameViews
        /\ Render

\* the auth store may take another auth-state-change
MayChange == auth.changes < MaxAuthChanges

\* App: the effect on [user].  When the user has changed and is not null,
\* fetchShipments() is called (and the channel subscribed); the views are
\* rendered from the same collection
UserEffect ==
    /\ IF auth'.user # auth.user /\ auth'.user # << >>
       THEN FetchShipments(calls, {})
       ELSE UNCHANGED << error, loading, calls >>
    /\ UNCHANGED << shipments, server, lastCall, nextId, notifications, writes >>
    /\ SameViews
    /\ SameRender

\* App: the effect on mount calls initialize(), which awaits getSession()
Initialize ==
    /\ auth.initialize = "idle"
    /\ auth' = [auth EXCEPT !.initialize = "awaiting"]
    /\ UserEffect

\* initialize after its await: the stored session, if any, is set and the
\* listener registered
GetSessionReturns ==
    /\ auth.initialize = "awaiting"
    /\ \E session \in Sessions \cup { << >> } :
           auth' = [signedIn(auth, session) EXCEPT !.initialize = "done"]
    /\ UserEffect

\* the callback of onAuthStateChange: a sign-in, a refreshed session or a
\* sign-out is announced
OnAuthStateChange ==
    /\ auth.initialize = "done"
    /\ MayChange
    /\ \E session \in Sessions \cup { << >> } :
           auth' = [signedIn(auth, session) EXCEPT !.changes = @ + 1]
    /\ UserEffect

\* logout() up to its await, from the dashboard of a signed-in user
Logout ==
    /\ auth.user # << >>
    /\ auth.logout # "awaiting"
    /\ auth' = [auth EXCEPT !.logout = "awaiting"]
    /\ UserEffect

\* logout after supabase.auth.signOut() has returned
SignOutReturns ==
    /\ auth.logout = "awaiting"
    /\ auth' = [loggedOut(auth) EXCEPT !.logout = "done"]
    /\ UserEffect

Next == HandleEdit \/ HandleCreateNew

NextAuth ==
    \/ Initialize \/ GetSessionReturns \/ OnAuthStateChange \/ Logout
    \/ SignOutReturns \/ SelectSucceeds \/ FetchContinues \/ RequestFails

NextStore ==
    \/ SubmitNew \/ SubmitEdited \/ DeleteRow \/ HandleBatchDelete \/ OnChange
    \/ SelectSucceeds \/ FetchContinues \/ WriteSucceeds \/ RequestFails

\* the store without the form for a new record and the batch delete
NextRace ==
    \/ SubmitEdited \/ DeleteRow \/ OnChange
    \/ SelectSucceeds \/ FetchContinues \/ WriteSucceeds \/ RequestFails

\* the store when every request succeeds, without the form for a new record
\* and the batch delete
NextSucceeding ==
    \/ SubmitEdited \/ DeleteRow \/ OnChange
    \/ SelectSucceeds \/ FetchContinues \/ WriteSucceeds

NextSelection ==
    \/ SetSearchQuery \/ SetFilterType \/ SetClientFilter
    \/ HandleSelectAll \/ HandleSelectOne

NextExport ==
    \/ SetSearchQuery \/ SetFilterType \/ SetClientFilter
    \/ HandleSelectAll \/ HandleSelectOne \/ HandleBatchExportPDF

NextFilter == SetSearchQuery \/ SetFilterType \/ SetClientFilter

NextViews ==
    \/ SetSearchQuery \/ SetFilterType \/ SetClientFilter
    \/ SetViewMode \/ SetSelectedYear
    \/ HandleEdit \/ HandleCreateNew

NextStats == SetViewMode \/ SetSelectedYear

NextTop == SetSelectedYear

Spec == Init /\ [][Next]_vars

SpecStats == InitStats /\ [][NextStats]_vars

SpecTop == InitTop /\ [][NextTop]_vars

SpecFilter == InitFilter /\ [][NextFilter]_vars

SpecLoaded == InitLoaded /\ [][NextFilter]_vars

SpecViews == InitViews /\ [][NextViews]_vars

SpecRace == InitRace /\ [][NextRace]_vars

SpecSucceeding == InitRace /\ [][NextSucceeding]_vars

SpecSelection == InitViews /\ [][NextSelection]_vars

SpecAuth == InitAuth /\ [][NextAuth]_vars

SpecExport == InitExport /\ [][NextExport]_vars

SpecStore == InitStore /\ [][NextStore]_vars

----------------------------------------------------------------------------
(* What the specification says of the profit of a record.  These           *)
(* definitions are written from the statement, not from the code.          *)

\* a missing cost or price counts as 0
Amount(record, field) == IF field \in DOMAIN record THEN record[field] ELSE 0

\* the sixteen fee categories in local currency, as << cost, price >> fields
LocalCategories ==
    << << "truckingFeeCost", "truckingFeePrice" >>,
       << "customsFeeCost", "customsFeePrice" >>,
       << "thcCost", "thcPrice" >>,
       << "printingFeeCost", "printingFeePrice" >>,
       << "sealFeeCost", "sealFeePrice" >>,
       << "docFeeCost", "docFeePrice" >>,
       << "telexFeeCost", "telexFeePrice" >>,
       << "blFeeCost", "blFeePrice" >>,
       << "diffPickupFeeCost", "diffPickupFeePrice" >>,
       << "weighingFeeCost", "weighingFeePrice" >>,
       << "vgmFeeCost", "vgmFeePrice" >>,
       << "amendmentFeeCost", "amendmentFeePrice" >>,
       << "detentionFeeCost", "detentionFeePrice" >>,
       << "demurrageFeeCost", "demurrageFeePrice" >>,
       << "handlingFeeCost", "handlingFeePrice" >>,
       << "insuranceFeeCost", "insuranceFeePrice" >> >>

RECURSIVE MarginSum(_, _, _)
MarginSum(record, categories, n) ==
    IF n = 0 THEN 0
    ELSE MarginSum(record, categories, n - 1)
         + Amount(record, categories[n][2]) - Amount(record, categories[n][1])

\* the sum of price - cost over the sixteen local categories, in tenths
LocalMargin(record) == 10 * MarginSum(record, LocalCategories, Len(LocalCategories))

\* price - cost of ocean freight, in foreign currency
OceanMargin(record) ==
    Amount(record, "oceanFreightPrice") - Amount(record, "oceanFreightCost")

RateUnset(record) == "exchangeRate" \notin DOMAIN record \/ record.exchangeRate = 0

\* the rate of the record, or the default 7.2 where the record sets none
RateOrDefault(record) == IF RateUnset(record) THEN 72 ELSE record.exchangeRate

NetProfit(record) == OceanMargin(record) * RateOrDefault(record) + LocalMargin(record)

\* the fee and rate fields of a record agree with those of the worked example
LikeExample(record) ==
    \A f \in FeeFields \cup {"exchangeRate"} :
        f \in DOMAIN record /\ record[f] = Example[f]

----------------------------------------------------------------------------
(* What the specification says of the statistics.  A period is named by    *)
(* the day number of its first day; months are counted from year 0.        *)

RECURSIVE SumFn(_, _)
SumFn(f, S) ==
    IF S = {} THEN 0
    ELSE LET x == CHOOSE x \in S : TRUE IN f[x] + SumFn(f, S \ {x})

\* the calendar date << y, m, d >> of the anchor of a record: loadingDate if
\* present, else the day of createdAt
AnchorDate(record) ==
    IF "loadingDate" \in DOMAIN record /\ record.loadingDate # << >>
    THEN record.loadingDate
    ELSE << YearOfDay(record.createdAt \div 24), MonthOfDay(record.createdAt \div 24),
            DayOfMonth(record.createdAt \div 24) >>

AnchorDay(record) ==
    DaysFromCivil(AnchorDate(record)[1], AnchorDate(record)[2], AnchorDate(record)[3])

\* months are counted from year 0
AnchorMonth(record) == 12 * AnchorDate(record)[1] + AnchorDate(record)[2] - 1

\* the Monday on or before a day (2024-01-01 was a Monday)
MondayOnOrBefore(day) ==
    CHOOSE m \in (day - 6)..day : (m - DaysFromCivil(2024, 1, 1)) % 7 = 0

\* the first day of the period of a record under a granularity
PeriodStart(record, mode) ==
    IF mode = "day" THEN AnchorDay(record)
    ELSE IF mode = "week" THEN MondayOnOrBefore(AnchorDay(record))
    ELSE DaysFromCivil(AnchorDate(record)[1], AnchorDate(record)[2], 1)

\* the positions of the records of the selected year
YearRecords ==
    { i \in DOMAIN shipments : AnchorDate(shipments[i])[1] = selectedYear }

\* trucking and customs margin, in tenths
ThreeCategoryLocal(record) ==
    10 * (Amount(record, "truckingFeePrice") - Amount(record, "truckingFeeCost")
          + Amount(record, "customsFeePrice") - Amount(record, "customsFeeCost"))

\* the number a string of digits reads as
RECURSIVE DigitsValue(_)
DigitsValue(str) ==
    IF str = << >> THEN 0
    ELSE 10 * DigitsValue(SubSeq(str, 1, Len(str) - 1)) + (str[Len(str)] - 48)

\* the first day of the period a bucket key "yyyy-MM" or "yyyy-MM-dd" names
KeyDay(key) ==
    DaysFromCivil(DigitsValue(SubSeq(key, 1, 4)), DigitsValue(SubSeq(key, 6, 7)),
                  IF Len(key) = 10 THEN DigitsValue(SubSeq(key, 9, 10)) ELSE 1)

\* two fractions name the same number
SameNumber(a, b) ==
    /\ a.d # 0
    /\ b.d # 0
    /\ IF a.d = b.d THEN a.n = b.n ELSE a.n * b.d = b.n * a.d

----------------------------------------------------------------------------
(* Claims on the profit calculator (specification Spec) *)

\* C1: the profit the list shows for every record is (oceanFreightPrice -
\* oceanFreightCost) * exchangeRate (the default 7.2 standing in for an unset
\* rate) plus the sum of price - cost over the other sixteen fee categories,
\* a missing cost or price counting as 0; the worked example gives 1550.
C1_NetProfitIsSumOfSeventeen ==
    \A i \in DOMAIN shipments :
        /\ i \in DOMAIN listProfit
        /\ listProfit[i] = NetProfit(shipments[i])
        /\ LikeExample(shipments[i]) => listProfit[i] = 15500

\* C1 witness: the worked example is listed with profit 1550 and has been
\* opened in the form
C1_Witness ==
    /\ \E i \in DOMAIN shipments :
           LikeExample(shipments[i]) /\ listProfit[i] = 15500
    /\ formValues # defaultValues

\* C2: with an exchangeRate of 0 or unset, the ocean contribution is
\* (oceanFreightPrice - oceanFreightCost) * 7.2 in the list, in the form
\* preview and in the statistics view.
C2_UnsetRateUsesDefault ==
    /\ \A i \in DOMAIN shipments :
           RateUnset(shipments[i]) =>
               listProfit[i] = OceanMargin(shipments[i]) * 72 + LocalMargin(shipments[i])
    /\ RateUnset(formValues) =>
           estimatedProfit = OceanMargin(formValues) * 72 + LocalMargin(formValues)
    /\ (\A i \in YearRecords : RateUnset(shipments[i])) =>
           stats.profit = SumFn([ i \in YearRecords |->
                                    OceanMargin(shipments[i]) * 72
                                    + ThreeCategoryLocal(shipments[i]) ], YearRecords)

\* C2 witness: a record without a rate and with an ocean margin is listed and
\* loaded into the form
C2_Witness ==
    /\ editingShipment # << >>
    /\ RateUnset(formValues)
    /\ OceanMargin(formValues) # 0
    /\ estimatedProfit = OceanMargin(formValues) * 72 + LocalMargin(formValues)
    /\ \E i \in YearRecords :
           /\ "exchangeRate" \notin DOMAIN shipments[i]
           /\ editingShipment[1] = shipments[i]
    /\ \A i \in YearRecords : RateUnset(shipments[i])
    /\ stats.profit # 0

\* C3 as stated: with an exchangeRate of exactly 0 the ocean contribution to
\* the net profit is 0, whatever the ocean cost and price are.
C3_ZeroRateGivesZeroOcean ==
    \A i \in DOMAIN shipments :
        ("exchangeRate" \in DOMAIN shipments[i] /\ shipments[i].exchangeRate = 0)
            => listProfit[i] - LocalMargin(shipments[i]) = 0

\* C3 amended: with an exchangeRate of exactly 0 the ocean contribution is
\* (oceanFreightPrice - oceanFreightCost) * 7.2, so it is 0 only when the
\* ocean price equals the ocean cost.
C3_ZeroRateFallsBackToDefault ==
    \A i \in DOMAIN shipments :
        ("exchangeRate" \in DOMAIN shipments[i] /\ shipments[i].exchangeRate = 0)
            => /\ listProfit[i] - LocalMargin(shipments[i])
                    = OceanMargin(shipments[i]) * 72
               /\ (listProfit[i] - LocalMargin(shipments[i]) = 0)
                    <=> (OceanMargin(shipments[i]) = 0)

\* C3 witness: a listed record with rate 0 and an ocean margin of 200 shows
\* an ocean contribution of 1440
C3_Witness ==
    \E i \in DOMAIN shipments :
        /\ "exchangeRate" \in DOMAIN shipments[i]
        /\ shipments[i].exchangeRate = 0
        /\ OceanMargin(shipments[i]) = 200
        /\ listProfit[i] - LocalMargin(shipments[i]) = 14400

----------------------------------------------------------------------------
(* Claims on the statistics view (specification SpecStats) *)

\* C4 as stated: the annual volume is the number of records whose anchor date
\* lies in the selected year, and the annual profit is the sum of the net
\* profit (all seventeen fee categories) of exactly those records.
C4_AnnualTotalsUseNetProfit ==
    /\ stats.vol = Cardinality(YearRecords)
    /\ stats.profit = SumFn([ i \in YearRecords |-> NetProfit(shipments[i]) ],
                            YearRecords)

\* the buckets whose key names the period of the record at position i
BucketsOf(i) ==
    { b \in DOMAIN stats.chartData :
        KeyDay(stats.chartData[b].dateStr) = PeriodStart(shipments[i], viewMode) }

\* the records of the selected year that belong to bucket b
RecordsOf(b) ==
    { i \in YearRecords :
        PeriodStart(shipments[i], viewMode) = KeyDay(stats.chartData[b].dateStr) }

\* C5 as stated: every record of the year is counted in exactly one bucket,
\* chosen by its anchor date; a bucket's volume is the number of its records
\* and its profit the sum of their net profit; the volumes sum to the annual
\* volume and the profits to the annual profit.
C5_BucketsPartitionYear ==
    /\ \A i \in YearRecords : Cardinality(BucketsOf(i)) = 1
    /\ \A b \in DOMAIN stats.chartData :
           /\ stats.chartData[b].volume = Cardinality(RecordsOf(b))
           /\ stats.chartData[b].profit =
                  SumFn([ i \in RecordsOf(b) |-> NetProfit(shipments[i]) ], RecordsOf(b))
    /\ SumFn([ b \in DOMAIN stats.chartData |-> stats.chartData[b].volume ],
             DOMAIN stats.chartData) = stats.vol
    /\ SumFn([ b \in DOMAIN stats.chartData |-> stats.chartData[b].profit ],
             DOMAIN stats.chartData) = stats.profit

\* C6: the buckets are in strictly ascending order of period start (so no
\* period has two buckets), and each names the period of a record of the year.
C6_BucketsAscending ==
    /\ \A b \in DOMAIN stats.chartData : RecordsOf(b) # {}
    /\ \A b \in 1..(Len(stats.chartData) - 1) :
           KeyDay(stats.chartData[b].dateStr) < KeyDay(stats.chartData[b + 1].dateStr)

\* C6 witness: week buckets of records that are listed latest period first,
\* the first bucket starting in the year before
C6_Witness ==
    /\ viewMode = "week"
    /\ Len(stats.chartData) >= 2
    /\ \E i, j \in YearRecords :
           i < j /\ PeriodStart(shipments[i], "week") > PeriodStart(shipments[j], "week")
    /\ KeyDay(stats.chartData[1].dateStr) < DaysFromCivil(selectedYear, 1, 1)

\* the months of the selected year that hold a record
PopulatedMonths == { AnchorMonth(shipments[i]) : i \in YearRecords }

LatestMonth == CHOOSE k \in PopulatedMonths : \A o \in PopulatedMonths : o <= k

PreviousMonth ==
    CHOOSE k \in PopulatedMonths \ {LatestMonth} :
        \A o \in PopulatedMonths \ {LatestMonth} : o <= k

\* the profit of a month as the statistics view counts profit: the ocean,
\* trucking and customs margins of the month's records
MonthProfit(k) ==
    SumFn([ i \in { j \in YearRecords : AnchorMonth(shipments[j]) = k } |->
              OceanMargin(shipments[i]) * RateOrDefault(shipments[i])
              + ThreeCategoryLocal(shipments[i]) ],
          { j \in YearRecords : AnchorMonth(shipments[j]) = k })

\* C7: profit growth is 0 with fewer than two populated months; otherwise,
\* with prev and curr the profits of the second-latest and the latest
\* populated month, it is 100 when prev is 0 and (curr - prev) / prev * 100
\* otherwise (prev 100, curr 150 gives 50; prev 0, curr 50 gives 100).
C7_ProfitGrowth ==
    IF Cardinality(PopulatedMonths) < 2
    THEN SameNumber(stats.profitGrowth, Number(0))
    ELSE /\ MonthProfit(PreviousMonth) = 0 =>
                SameNumber(stats.profitGrowth, Number(100))
         /\ MonthProfit(PreviousMonth) # 0 =>
                SameNumber(stats.profitGrowth,
                           Fraction((MonthProfit(LatestMonth) - MonthProfit(PreviousMonth)) * 100,
                                    MonthProfit(PreviousMonth)))
         /\ (MonthProfit(PreviousMonth) = 1000 /\ MonthProfit(LatestMonth) = 1500) =>
                SameNumber(stats.profitGrowth, Number(50))

\* C7 witness: three populated months, of which the two latest have profits
\* 100 and 150, and a growth of 50
C7_Witness ==
    /\ Cardinality(PopulatedMonths) >= 2
    /\ MonthProfit(PreviousMonth) = 1000
    /\ MonthProfit(LatestMonth) = 1500
    /\ SameNumber(stats.profitGrowth, Number(50))
    /\ \E i, j \in YearRecords :
           i < j /\ AnchorMonth(shipments[i]) > AnchorMonth(shipments[j])

\* the container type of a record, "Other" for a record that lacks one
TypeOrOther(record) ==
    IF "containerType" \in DOMAIN record /\ record.containerType # << >>
    THEN record.containerType ELSE << "Other" >>

\* C10: the container distribution has exactly one entry per distinct
\* container type of the year's records ("Other" for a record without a type),
\* each count is the number of such records, and the counts sum to the annual
\* volume; types [40HQ, 40HQ, missing] give 40HQ: 2, Other: 1.
C10_ContainerDistribution ==
    /\ \A i \in YearRecords :
           Cardinality({ e \in DOMAIN stats.containerTypes :
                           stats.containerTypes[e].name = TypeOrOther(shipments[i]) }) = 1
    /\ \A e \in DOMAIN stats.containerTypes :
           /\ stats.containerTypes[e].value >= 1
           /\ stats.containerTypes[e].value =
                  Cardinality({ i \in YearRecords :
                                  TypeOrOther(shipments[i]) = stats.containerTypes[e].name })
    /\ SumFn([ e \in DOMAIN stats.containerTypes |-> stats.containerTypes[e].value ],
             DOMAIN stats.containerTypes) = stats.vol
    /\ ( /\ YearRecords = 1..3
         /\ \A i \in 1..2 : TypeOrOther(shipments[i]) = << "40HQ" >>
         /\ "containerType" \notin DOMAIN shipments[3] )
       => stats.containerTypes = << [name |-> << "40HQ" >>, value |-> 2],
                                    [name |-> << "Other" >>, value |-> 1] >>

\* C10 witness: the types 40HQ, 40HQ and a missing type give 40HQ: 2, Other: 1
C10_Witness ==
    /\ YearRecords = 1..3
    /\ \A i \in 1..2 : TypeOrOther(shipments[i]) = << "40HQ" >>
    /\ "containerType" \notin DOMAIN shipments[3]
    /\ stats.containerTypes = << [name |-> << "40HQ" >>, value |-> 2],
                                 [name |-> << "Other" >>, value |-> 1] >>
    /\ stats.vol = 3

----------------------------------------------------------------------------
(* Claims on the top lists (specification SpecTop) *)

\* the client a record is grouped under: its name, or the placeholder
ClientOf(record) ==
    IF "client" \in DOMAIN record /\ record.client # << >>
    THEN record.client ELSE << "Unknown" >>

\* the route a record is grouped under
RouteOf(record) == record.pol \o << " -> " >> \o record.pod

ClientKey == [ i \in YearRecords |-> ClientOf(shipments[i]) ]

RouteKey == [ i \in YearRecords |-> RouteOf(shipments[i]) ]

ListedClients == [ e \in DOMAIN stats.topClients |-> stats.topClients[e].name ]

ListedRoutes == [ e \in DOMAIN stats.topRoutes |-> stats.topRoutes[e].route ]

\* the groups of a grouping, the size of a group and the position in the
\* collection of the first of its records
Groups(key) == { key[i] : i \in DOMAIN key }

GroupCount(key, k) == Cardinality({ i \in DOMAIN key : key[i] = k })

FirstSeen(key, k) ==
    CHOOSE i \in DOMAIN key : key[i] = k /\ \A j \in DOMAIN key : key[j] = k => i <= j

Omitted(names, key) == Groups(key) \ { names[e] : e \in DOMAIN names }

\* a list of group names and counts is the top five of a grouping
IsTopFive(names, counts, key) ==
    /\ Len(names) <= 5
    /\ Omitted(names, key) # {} => Len(names) = 5
    /\ \A e \in DOMAIN names : names[e] \in Groups(key)
    /\ \A e, f \in DOMAIN names : e < f => names[e] # names[f]
    /\ \A e \in 1..(Len(names) - 1) : counts[e] >= counts[e + 1]
    /\ \A e \in DOMAIN names : \A g \in Omitted(names, key) :
           GroupCount(key, names[e]) >= GroupCount(key, g)
    /\ \A e, f \in DOMAIN names :
           (e < f /\ GroupCount(key, names[e]) = GroupCount(key, names[f]))
               => FirstSeen(key, names[e]) < FirstSeen(key, names[f])
    /\ \A e \in DOMAIN names : \A g \in Omitted(names, key) :
           GroupCount(key, names[e]) = GroupCount(key, g)
               => FirstSeen(key, names[e]) < FirstSeen(key, g)

\* C8: the top-clients and the top-routes list each have at most 5 entries,
\* in order of non-increasing count, list no group smaller than an omitted
\* one, and keep groups of equal count in the order of their first record,
\* which also decides which of them survive the cut at 5.
C8_TopFiveOrder ==
    /\ IsTopFive(ListedClients,
                 [ e \in DOMAIN stats.topClients |-> stats.topClients[e].count ],
                 ClientKey)
    /\ IsTopFive(ListedRoutes,
                 [ e \in DOMAIN stats.topRoutes |-> stats.topRoutes[e].count ],
                 RouteKey)

\* C8 witness: six clients of which the first listed is not the first seen,
\* an omitted client ties with a listed one, and a route is omitted too
C8_Witness ==
    /\ Len(stats.topClients) = 5
    /\ Len(stats.topRoutes) = 5
    /\ Omitted(ListedRoutes, RouteKey) # {}
    /\ \E g \in Omitted(ListedClients, ClientKey) :
           GroupCount(ClientKey, g) = GroupCount(ClientKey, ListedClients[5])
    /\ stats.topClients[1].count > stats.topClients[5].count
    /\ \E e \in 2..5 :
           FirstSeen(ClientKey, ListedClients[e]) < FirstSeen(ClientKey, ListedClients[1])

\* C9: the count of each listed client is the number of the year's records
\* of that client, the records with a missing or an empty client counting
\* together under the one entry "Unknown" (never under an empty name);
\* the clients [Acme, Acme, Beta] give [{Acme, 2}, {Beta, 1}].
C9_ClientCounts ==
    /\ \A e \in DOMAIN stats.topClients :
           /\ stats.topClients[e].name # << >>
           /\ stats.topClients[e].count = GroupCount(ClientKey, stats.topClients[e].name)
    /\ \A e, f \in DOMAIN stats.topClients :
           e < f => stats.topClients[e].name # stats.topClients[f].name
    /\ Cardinality(Groups(ClientKey)) <= 5 =>
           \A i \in YearRecords : \E e \in DOMAIN stats.topClients :
               stats.topClients[e].name = ClientOf(shipments[i])
    /\ ( /\ YearRecords = 1..3
         /\ ClientKey = << << "Acme" >>, << "Acme" >>, << "Beta" >> >> )
       => stats.topClients = << [name |-> << "Acme" >>, count |-> 2],
                                [name |-> << "Beta" >>, count |-> 1] >>

\* C9 witness: a record without a client and one with an empty client are
\* counted in one entry "Unknown" of count 2 next to a named client
C9_Witness ==
    /\ \E i \in YearRecords : "client" \notin DOMAIN shipments[i]
    /\ \E i \in YearRecords : "client" \in DOMAIN shipments[i] /\ shipments[i].client = << >>
    /\ \E e \in DOMAIN stats.topClients :
           stats.topClients[e] = [name |-> << "Unknown" >>, count |-> 2]
    /\ \E e \in DOMAIN stats.topClients : stats.topClients[e].name = << "Acme" >>

----------------------------------------------------------------------------
(* Claim on the empty year (specification SpecStats) *)

\* every aggregate of the statistics view is zero or empty
AllEmpty ==
    /\ stats.vol = 0
    /\ stats.profit = 0
    /\ SameNumber(stats.volGrowth, Number(0))
    /\ SameNumber(stats.profitGrowth, Number(0))
    /\ stats.chartData = << >>
    /\ stats.topClients = << >>
    /\ stats.topRoutes = << >>
    /\ stats.containerTypes = << >>

\* C11: when no record falls in the selected year (as for an empty
\* collection), volume, profit, volume growth and profit growth are 0 and the
\* bucket list, both top lists and the container distribution are empty.
C11_EmptyYear == YearRecords = {} => AllEmpty

\* C11 witness: the collection holds records, all of another year
C11_Witness == shipments # << >> /\ YearRecords = {} /\ AllEmpty

----------------------------------------------------------------------------
(* Claims on the filter (specifications SpecFilter, SpecLoaded, SpecViews) *)

\* two characters are the same letter in either case, or the same character
SameIgnoringCase(a, b) ==
    a = b \/ \E k \in DOMAIN UpperCase : {a, b} = {UpperCase[k], LowerCase[k]}

\* the text occurs in the field, ignoring letter case
Occurs(text, field) ==
    \E offset \in 0..(Len(field) - Len(text)) :
        \A i \in DOMAIN text : SameIgnoringCase(field[offset + i], text[i])

SearchedFields == { "bookingNo", "businessNo", "containerNo", "shipper", "client" }

\* the three predicates of the filter
SearchMatch(record, text) ==
    \E f \in SearchedFields : f \in DOMAIN record /\ Occurs(text, record[f])

TypeMatch(record, type) ==
    type = ALL \/ ("containerType" \in DOMAIN record /\ record.containerType = type)

ClientMatch(record, client) ==
    client = ALL \/ ("client" \in DOMAIN record /\ record.client = client)

\* the positions of the records that satisfy all three predicates
Satisfying ==
    { i \in DOMAIN shipments :
        /\ SearchMatch(shipments[i], searchQuery)
        /\ TypeMatch(shipments[i], filterType)
        /\ ClientMatch(shipments[i], clientFilter) }

\* the k-th smallest element of a set of positions
Kth(S, k) == CHOOSE i \in S : Cardinality({ j \in S : j < i }) = k - 1

\* C12: with an empty search text and both filters at "all" the filter
\* returns the collection as it is: the same records in the same order,
\* records with an empty or a missing client included.
C12_NoFilterIsIdentity ==
    (searchQuery = << >> /\ filterType = ALL /\ clientFilter = ALL)
        => (~filtered.threw /\ filtered.value = shipments)

\* C12 witness: the filters are at their defaults over a record with an empty
\* and a record with a missing client
C12_Witness ==
    /\ searchQuery = << >> /\ filterType = ALL /\ clientFilter = ALL
    /\ Len(shipments) = 2
    /\ \E i \in 1..2 : "client" \in DOMAIN shipments[i] /\ shipments[i].client = << >>
    /\ \E i \in 1..2 : "client" \notin DOMAIN shipments[i]
    /\ filtered.value = shipments

\* C13: the filter result is exactly the subsequence of the records that
\* satisfy the search, the container type filter and the client filter at
\* once, in their original order, each once and unaltered.
C13_FilterIsConjunction ==
    /\ ~filtered.threw
    /\ Len(filtered.value) = Cardinality(Satisfying)
    /\ \A k \in DOMAIN filtered.value : filtered.value[k] = shipments[Kth(Satisfying, k)]

\* C13 witness: every predicate alone keeps both records, a record fails
\* two of the three, and the other is the only row
C13_Witness ==
    /\ Len(shipments) = 2
    /\ searchQuery # << >> /\ filterType # ALL /\ clientFilter # ALL
    /\ Satisfying = {2}
    /\ SearchMatch(shipments[1], searchQuery)
    /\ ~TypeMatch(shipments[1], filterType)
    /\ filtered.value = << shipments[2] >>

\* the ids of the rows the filter returns
RowIds == { filtered.value[k].id : k \in DOMAIN filtered.value }

\* C14: with both filters at "all", a record is a row iff the search text
\* occurs, ignoring letter case, in its booking number, business number,
\* container number, shipper or client; a record with bookingNo "ABC123"
\* is a row for the text "abc".
C14_SearchFields ==
    (filterType = ALL /\ clientFilter = ALL) =>
        /\ ~filtered.threw
        /\ \A i \in DOMAIN shipments :
               shipments[i].id \in RowIds <=> SearchMatch(shipments[i], searchQuery)
        /\ \A i \in DOMAIN shipments :
               (shipments[i].bookingNo = << "A", "B", "C", "1", "2", "3" >>
                    /\ searchQuery = << "a", "b", "c" >>)
                   => shipments[i].id \in RowIds

\* C14 witness: the text "abc" finds the booking number "ABC123" and not the
\* other record, and a text held by a port only finds nothing
C14_Witness ==
    /\ filterType = ALL /\ clientFilter = ALL
    /\ searchQuery = << "a", "b", "c" >>
    /\ Len(shipments) = 2
    /\ shipments[1].bookingNo = << "A", "B", "C", "1", "2", "3" >>
    /\ shipments[1].pol = << "z", "z" >>
    /\ RowIds = { shipments[1].id }

\* C15 as stated: the filter returns a result, possibly empty, for every
\* collection, also where a record lacks a text field the search reads.
C15_FilterNeverFails == ~filtered.threw

----------------------------------------------------------------------------
(* Claims on the store (specification SpecStore) *)

\* the ids of the local collection
LocalIds == { shipments[i].id : i \in DOMAIN shipments }

\* C17 as stated: a write whose remote request failed hands its caller a
\* failure value, and the caller has not gone on to onSuccess() before it
\* could see it.
C17_FailureReachesCaller ==
    (lastCall # << >> /\ lastCall[1].op \in Writes /\ lastCall[1].result = "error")
        => (lastCall[1].resolved = "failure" /\ ~lastCall[1].onSuccess)

\* the write that returned last failed, and no other call was in flight with
\* it or has started since
FailedAlone ==
    /\ lastCall # << >>
    /\ lastCall[1].op \in Writes
    /\ lastCall[1].result = "error"
    /\ lastCall[1].alone
    /\ calls = << >>

\* C18: after an add, update, delete or bulk delete that ran with no other
\* store operation and whose remote write failed, the local collection is the
\* collection before the call and the error field holds the failure message.
C18_FailedWriteRollsBack ==
    FailedAlone =>
        /\ shipments = lastCall[1].before
        /\ error = << "failed", lastCall[1].op >>

\* C18 witness: an add has failed alone, and its provisional record is gone
C18_Witness ==
    /\ FailedAlone
    /\ lastCall[1].op = "add"
    /\ lastCall[1].ids \cap LocalIds = {}
    /\ shipments = lastCall[1].before
    /\ error # << >>

\* C19 as stated: once the fetch that follows a successful insert has
\* completed, no record with the provisional id is left in the collection.
C19_ProvisionalReplaced ==
    (lastCall # << >> /\ lastCall[1].op = "fetch")
        => lastCall[1].followUpOf \cap LocalIds = {}

----------------------------------------------------------------------------
(* Claims on the form's validation (specification SpecStore) *)

\* the records the form has handed to addShipment or updateShipment: those of
\* the calls in flight and of the call that returned last
HandedOver ==
    { calls[c].payload : c \in { c \in DOMAIN calls : calls[c].op \in { "add", "update" } } }
    \cup { lastCall[c].payload :
             c \in { c \in DOMAIN lastCall : lastCall[c].op \in { "add", "update" } } }

\* C21 as stated: every record the form hands to addShipment or
\* updateShipment has every fee field that is present at least 0 and an
\* exchange rate above 0.
C21_NoNegativeFeeSubmitted ==
    \A record \in HandedOver :
        /\ \A k \in FeeFields \cap DOMAIN record : record[k] >= 0
        /\ record.exchangeRate > 0

----------------------------------------------------------------------------
(* Claims on the copies of the profit formula (specification Spec) *)

\* C22 as stated: the form's estimated profit on the field values of a
\* record, the profit the list shows for it and the profit the statistics
\* view adds for it are one number: the preview of the record being edited
\* is its list profit, and the annual profit is the sum of the list profits
\* of the records of the year.
C22_ThreeCopiesAgree ==
    /\ \A i \in DOMAIN shipments :
           (editingShipment # << >> /\ editingShipment[1] = shipments[i])
               => estimatedProfit = listProfit[i]
    /\ stats.profit = SumFn([ i \in YearRecords |-> listProfit[i] ], YearRecords)

----------------------------------------------------------------------------
(* Claims on the granularity (specification SpecStats) *)

\* what the statistics view shows besides the period buckets
BesidesBuckets == DOMAIN stats \ { "chartData" }

\* C23: a change of the display granularity on the same collection and year
\* leaves the annual volume and profit, both growth figures, the monthly
\* profit series, the top clients, the top routes and the container
\* distribution as they were; only the period buckets may change.
C23_GranularityChangesBucketsOnly ==
    [][ (viewMode' # viewMode /\ selectedYear' = selectedYear /\ shipments' = shipments)
          => /\ DOMAIN stats' = DOMAIN stats
             /\ \A k \in BesidesBuckets : stats'[k] = stats[k] ]_vars

\* C23 witness: the chart is shown by day for a year with two months of
\* records, whose buckets are not those of the monthly series
C23_Witness ==
    /\ viewMode = "day"
    /\ Len(stats.monthlyProfitData) >= 2
    /\ Len(stats.chartData) > Len(stats.monthlyProfitData)
    /\ stats.volGrowth # Number(0)
    /\ stats.topClients # << >>

----------------------------------------------------------------------------
(* Claims on interleaved store operations (specification SpecRace) *)

\* the records of a collection
Records(list) == { list[i] : i \in DOMAIN list }

\* the writes that roll back to a snapshot
SnapshotWrites == { "update", "delete", "deleteMany" }

\* the collection with only the optimistic change of a call undone: the
\* records it deleted are back, the record it updated has its old field
\* values if it is still there, and every other record is as it is now
OwnChangeUndone(list, call) ==
    LET others == { r \in Records(list) : r.id \notin call.ids }
        old == { r \in Records(call.before) : r.id \in call.ids }
    IN  IF call.op = "update"
        THEN others \cup { r \in old : \E q \in Records(list) : q.id = r.id }
        ELSE others \cup old

\* C24 as stated: the rollback of a failed update, delete or bulk delete
\* undoes only its own optimistic change, so what other operations did to
\* the collection since the call started is still there after it.
C24_RollbackUndoesOwnChangeOnly ==
    [][ \A c \in DOMAIN calls :
          ( /\ calls[c].pc = "sent"
            /\ calls[c].op \in SnapshotWrites
            /\ calls' = finished(calls, c)
            /\ lastCall' = << [calls[c] EXCEPT !.pc = "done", !.result = "error",
                                               !.resolved = "undefined"] >> )
          => Records(shipments') = OwnChangeUndone(shipments, calls[c]) ]_vars

----------------------------------------------------------------------------
(* Claims on convergence (specification SpecSucceeding: no request fails) *)

\* no call of the store is in flight and no change notification is pending
Quiescent == calls = << >> /\ notifications = 0

\* C25 as stated: when every write and fetch succeeds and every change of
\* the table is followed by a fetch, the local collection equals the
\* server's once nothing is in flight, whatever the order of the answers.
C25_ConvergesToServer ==
    Quiescent => (Len(shipments) = Len(server) /\ Records(shipments) = Records(server))

----------------------------------------------------------------------------
(* Claims on the selection (specification SpecSelection) *)

\* what the exports print
Targets == getExportTargets(filtered.value, selectedIds)

\* C26 as stated: whenever exactly one id is selected, the export targets
\* are exactly the one record with that id.
C26_SingleSelectionHasTarget ==
    (~filtered.threw /\ Cardinality(selectedIds) = 1)
        => (Len(Targets) = 1 /\ Targets[1].id \in selectedIds)

----------------------------------------------------------------------------
(* Claims on the session (specification SpecAuth) *)

\* C27 as stated: once logout has completed and no fetch is in flight, the
\* shipment store holds no record (those it held were loaded under the
\* session that was logged out).
C27_LogoutClearsRecords ==
    (auth.logout = "done" /\ auth.user = << >> /\ calls = << >>) => shipments = << >>

\* user and session of the auth store agree
UserIsSessionUser ==
    /\ auth.user = << >> <=> auth.session = << >>
    /\ auth.session # << >> => auth.user = << auth.session[1].user >>

\* C28: in every state user is null exactly when session is null and is the
\* session's user otherwise; the step that completes logout leaves both
\* null, and they stay null until an auth-state-change callback sets them;
\* once initialize has completed, loading is false and stays false.
C28_UserFollowsSession ==
    /\ [](UserIsSessionUser /\ (auth.initialize = "done" => ~auth.loading))
    /\ [][ /\ (auth.logout = "awaiting" /\ auth'.logout = "done")
                => (auth'.session = << >> /\ auth'.user = << >>)
           /\ (auth.logout = "done" /\ auth.session = << >> /\ auth'.session # << >>)
                => auth'.changes = auth.changes + 1
           /\ auth.initialize = "done" => ~auth'.loading ]_vars

\* C28 witness: a user signed in through an auth-state-change, loaded the
\* records and logged out; both are null and loading is false
C28_Witness ==
    /\ auth.logout = "done"
    /\ auth.changes > 0
    /\ auth.session = << >>
    /\ auth.user = << >>
    /\ ~auth.loading
    /\ shipments # << >>

----------------------------------------------------------------------------
(* Claims on the volumes of months and buckets (specification SpecStats) *)

\* the number of records of the selected year whose anchor date lies in month k
MonthVolume(k) == Cardinality({ j \in YearRecords : AnchorMonth(shipments[j]) = k })

\* the month entries the growth is computed from
MonthEntries == monthlyStats(yearShipments(shipments, selectedYear),
                             Len(yearShipments(shipments, selectedYear)))

\* C29: every month entry made for the growth and every period bucket holds
\* at least one record, so with two populated months the previous month's
\* volume is not 0 and the volume growth is (curr.vol - prev.vol) / prev.vol
\* * 100, never the 100 of the saturating branch for an empty month.
C29_NoEmptyMonthOrBucket ==
    /\ \A e \in DOMAIN MonthEntries : MonthEntries[e].vol >= 1
    /\ \A b \in DOMAIN stats.chartData : stats.chartData[b].volume >= 1
    /\ Cardinality(PopulatedMonths) >= 2 =>
           /\ MonthVolume(PreviousMonth) >= 1
           /\ SameNumber(stats.volGrowth,
                         Fraction((MonthVolume(LatestMonth) - MonthVolume(PreviousMonth)) * 100,
                                  MonthVolume(PreviousMonth)))

\* C29 witness: two populated months, the earlier with one record and the
\* later with two, and a volume growth of 100 that is computed, not saturated;
\* the chart shows days
C29_Witness ==
    /\ Cardinality(PopulatedMonths) = 2
    /\ MonthVolume(PreviousMonth) = 1
    /\ MonthVolume(LatestMonth) = 2
    /\ SameNumber(stats.volGrowth, Number(100))
    /\ viewMode = "day"
    /\ Len(stats.chartData) >= 2

----------------------------------------------------------------------------
(* Claims on the detail export (specification SpecExport) *)

\* the sum of the profit column of the first n rows, NaN if a row shows NaN
RECURSIVE ColumnSum(_, _)
ColumnSum(rows, n) ==
    IF n = 0 THEN << 0 >>
    ELSE IF ColumnSum(rows, n - 1) = << >> \/ rows[n].profit = << >> THEN << >>
    ELSE << ColumnSum(rows, n - 1)[1] + rows[n].profit[1] >>

\* the position of a fee in the fixed order of the fees
FeeOrder(label) == CHOOSE f \in DOMAIN feeKeys : feeKeys[f] = label

\* C30 as stated: in a detail export that was saved, the footer total is the
\* sum of the profit column of the rows printed, and the additional-fee rows
\* follow the three main rows in the fixed order of the fees.
C30_FooterIsSumOfRows ==
    \A d \in DOMAIN exported :
        (exported[d].detail /\ ~exported[d].threw) =>
            /\ exported[d].foot = ColumnSum(exported[d].rows, Len(exported[d].rows))
            /\ \A r, q \in 4..Len(exported[d].rows) :
                   r < q => FeeOrder(exported[d].rows[r].item) < FeeOrder(exported[d].rows[q].item)

====
